---- MODULE Spec2Model ----
(***************************************************************************)
(* Agent lifecycle and orchestration of the chat scraper                   *)
(* (src/src/agents/orchestrator.rs, src/src/agents/agent.rs,               *)
(* src/src/browser/manager.rs).                                            *)
(*                                                                         *)
(* Spec     : the orchestrator.  Its public operations take &mut self and  *)
(*            the HTTP handlers hold the orchestrator's write lock for the *)
(*            whole call, so each operation is one step; between two       *)
(*            operations the agents' monitoring loops, the system monitor  *)
(*            and the config watcher act.  An operation is an operator     *)
(*            from the state it starts in to the state it leaves and its   *)
(*            result; a property of an operation is stated of that         *)
(*            operator in every reachable state.                           *)
(* LoopSpec : one agent's monitoring loop, step by step.                   *)
(* LifecycleSpec : the orchestrator from start() to stop() with its four   *)
(*            background loops, step by step.                              *)
(* PoolSpec : concurrent callers of one BrowserPool, step by step.         *)
(* StreamSpec : one message_stream() subscriber of the chat channel.       *)
(* LockSpec : stop_agent around one agent's stop(), with the agents-map    *)
(*            lock and a background loop that reads the map.               *)
(* DeadlockSpec : every task that takes the RwLocks, lock step by lock     *)
(*            step: the callers of the orchestrator, the four background   *)
(*            loops and one agent's monitoring loop.                       *)
(***************************************************************************)
EXTENDS Integers, Sequences, FiniteSets, TLC

VARIABLES
    agents,               \* AgentOrchestrator.agents: AgentId -> agent (its status)
    agent_assignments,    \* AgentOrchestrator.agent_assignments: AgentId -> AgentAssignment
    instances,            \* BrowserPool.instances, each named by the agent that created it
    config,               \* AgentOrchestrator.config (streamers, agents.max_concurrent)
    max_concurrent,       \* AgentOrchestrator.max_concurrent, copied at construction
    system_metrics,       \* AgentOrchestrator.system_metrics
    total_agents_spawned, \* AgentOrchestrator.total_agents_spawned
    next_id,              \* the next fresh AgentId (Uuid::new_v4)
    status,               \* ScrapingAgent.status of the agent LoopSpec follows
    metrics,              \* ScrapingAgent.metrics (its status and error_count)
    browser_instance,     \* whether the agent's instance is registered in the pool
    browser_instance_id,  \* whether ScrapingAgent.browser_instance_id is Some
    shutdown_signal,      \* whether a shutdown message waits in the mpsc channel
    monitoring_task,      \* where the spawned monitoring task is
    consecutive_errors,   \* the task's local consecutive_errors
    last_html_hash,       \* the task's local last_html_hash
    agent_pc,             \* where the agent's owner is in start() and stop()
    orchestrator_pc,      \* where the orchestrator's owner is in start() and stop()
    background_tasks,     \* where each of the four background loops is
    shutdown_rx,          \* the loops whose broadcast receiver holds an unread shutdown
    agent_ids,            \* stop_all_agents: the collected ids not yet stopped
    agents_to_restart,    \* the recovery loop's local agents_to_restart
    pool_calls,           \* where each concurrent caller of the BrowserPool is, and its last result
    next_instance_id,     \* the next fresh BrowserInstanceId (Uuid::new_v4)
    chat_receivers,       \* the subscribers of the chat broadcast channel
    chat_sent,            \* the number of chat messages sent on the broadcast channel
    forwarder,            \* message_stream's forwarding task and its broadcast receiver
    stream_buffer,        \* the mpsc channel between the forwarding task and the consumer
    stream_received,      \* the messages the consumer has taken from the stream
    agents_lock,          \* how the RwLock of the agents map is held
    stop_agent_pc,        \* where a stop_agent call is
    reader_pc,            \* where a background loop that reads the agents map is
    backoff_duration,     \* the task's backoff sleep in ms, 0 when it is not in one
    lock_holders,         \* each RwLock's guards: who holds it, for reading or writing
    lock_queue,           \* each RwLock's waiters, in the order they asked
    lock_tasks,           \* what each task that takes locks is running, and where it is
    lock_shutdown         \* whether the agent's shutdown signal waits for its loop

ovars == <<agents, agent_assignments, instances, config, max_concurrent,
           system_metrics, total_agents_spawned, next_id>>

lvars == <<status, metrics, browser_instance, browser_instance_id, shutdown_signal,
           monitoring_task, consecutive_errors, last_html_hash, agent_pc,
           backoff_duration>>

svars == <<orchestrator_pc, background_tasks, shutdown_rx, agent_ids, agents_to_restart>>

pvars == <<pool_calls, next_instance_id>>

cvars == <<chat_receivers, chat_sent, forwarder, stream_buffer, stream_received>>

kvars == <<agents_lock, stop_agent_pc, reader_pc>>

dvars == <<lock_holders, lock_queue, lock_tasks, lock_shutdown>>

vars == <<ovars, lvars, svars, pvars, cvars, kvars, dvars>>

\* what the steps of each specification leave alone
OutsideOrchestrator == <<lvars, svars, pvars, cvars, kvars, dvars>>

OutsideAgent == <<ovars, svars, pvars, cvars, kvars, dvars>>

OutsideLifecycle == <<lvars, pvars, cvars, kvars, dvars>>

OutsidePool == <<lvars, svars, cvars, kvars, dvars>>

OutsideStream == <<ovars, lvars, svars, pvars, kvars, dvars>>

OutsideLocks == <<ovars, svars, pvars, cvars, dvars>>

OutsideDeadlock == <<ovars, lvars, svars, pvars, cvars, kvars>>

----------------------------------------------------------------------------
(* Bounds of the model *)

\* fresh agent ids available to one behaviour
MaxIds == 3
\* restarts recorded in one assignment
MaxRetries == 1
\* BrowserPool.max_instances
PoolMax == 2
\* failed ticks counted in metrics.error_count
MaxErrorCount == 11
\* messages counted in metrics.messages_scraped
MaxScraped == 2
\* fresh browser instance ids available to one behaviour
MaxInstanceIds == 4
\* chat messages sent in one behaviour
MaxMessages == 5
\* messages the broadcast channel retains (10000 in the orchestrator)
BroadcastCapacity == 2
\* messages the stream's mpsc channel holds (1000 in message_stream)
StreamCapacity == 1

Streamers == {"a", "b"}

StreamerLists ==
    { <<"b">>, <<"a", "b">> }

ConcurrencyLimits == {1, 2}

Configs == [streamers : StreamerLists, max_concurrent : ConcurrencyLimits]

\* priorities a caller of POST /agents passes (its default, unwrap_or(0))
ApiPriorities == {0}

\* (cpu_usage %, memory_usage, memory_total) the system monitor can store
MetricsChoices ==
    { [cpu_usage |-> 0,  memory_usage |-> 50, memory_total |-> 100],
      [cpu_usage |-> 85, memory_usage |-> 85, memory_total |-> 100],
      [cpu_usage |-> 90, memory_usage |-> 50, memory_total |-> 100],
      [cpu_usage |-> 50, memory_usage |-> 86, memory_total |-> 100],
      [cpu_usage |-> 91, memory_usage |-> 50, memory_total |-> 100] }

\* how agent.start() inside spawn_agent can end
StartOutcomes == {"ok", "init_err", "nav_err", "timeout"}

AgentIds == 1..MaxIds

\* the distinct page contents one agent fetches
Payloads == {1, 2, 3, 4}

----------------------------------------------------------------------------
(* Helpers on maps *)

Remove(f, k) == [x \in DOMAIN f \ {k} |-> f[x]]

Put(f, k, v) == [x \in DOMAIN f \cup {k} |-> IF x = k THEN v ELSE f[x]]

EmptyMap == [x \in {} |-> 0]

StatusUpdate(id, state) == [kind |-> "StatusUpdate", agent_id |-> id, status |-> state]

\* the state one orchestrator operation works on, and what it has done so far
OpState ==
    [agents |-> agents, assignments |-> agent_assignments, instances |-> instances,
     next_id |-> next_id, total |-> total_agents_spawned,
     sent |-> <<>>, spawns |-> 0, failed |-> 0, stops |-> 0]

----------------------------------------------------------------------------
(* spawn_agent *)

SpawnAtCapacityAbove(st) == Cardinality(DOMAIN st.agents) > max_concurrent

\* the capacity check of spawn_agent, against the field copied at construction
SpawnAtCapacity(st) == Cardinality(DOMAIN st.agents) >= max_concurrent

\* BrowserPool::create_instance refuses when the pool is full
PoolFull(st) == Cardinality(st.instances) >= PoolMax

\* agent.start() under the 30 s timeout: what the attempt ends as
StartResult(st, outcome) == IF PoolFull(st) THEN "pool_full" ELSE outcome

\* whether the agent's browser instance was registered in the pool
StartRegistersInstance(st, outcome) ==
    /\ ~PoolFull(st)
    /\ outcome \in {"ok", "nav_err", "timeout"}

StartError(result) ==
    CASE result = "init_err"      -> "BrowserError"
      [] result = "nav_err"       -> "BrowserError"
      [] result = "pool_full"     -> "ResourceLimit"
      [] result = "timeout"       -> "AgentError"
      [] OTHER                    -> "Ok"

NewAssignment(id, streamer, priority) ==
    [agent_id |-> id, streamer |-> streamer, priority |-> priority,
     retry_attempts |-> 0, last_failure |-> FALSE]

SpawnRegisterUncounted(st, id, streamer, priority) ==
    [st EXCEPT !.agents = Put(@, id, [status |-> "Running"]),
               !.assignments = Put(@, id, NewAssignment(id, streamer, priority)),
               !.sent = Append(@, StatusUpdate(id, "Starting"))]

\* the agent and assignment a successful spawn stores
SpawnRegister(st, id, streamer, priority) ==
    [st EXCEPT !.agents = Put(@, id, [status |-> "Running"]),
               !.assignments = Put(@, id, NewAssignment(id, streamer, priority)),
               !.total = @ + 1,
               !.sent = Append(@, StatusUpdate(id, "Starting"))]

spawn_agent(st, streamer, priority, outcome) ==
    IF SpawnAtCapacity(st)
    THEN [st |-> [st EXCEPT !.spawns = @ + 1, !.failed = @ + 1],
          res |-> "ResourceLimit", id |-> 0]
    ELSE LET id == st.next_id
             result == StartResult(st, outcome)
             \* an id that was never stored anywhere (the agent was dropped with
             \* no instance registered) is not counted as used
             st1 == [st EXCEPT !.next_id = IF StartRegistersInstance(st, outcome)
                                           THEN @ + 1 ELSE @,
                               !.spawns = @ + 1,
                               !.instances = IF StartRegistersInstance(st, outcome)
                                             THEN @ \cup {id} ELSE @]
         IN  IF result = "ok"
             THEN [st |-> SpawnRegister(st1, id, streamer, priority),
                   res |-> "Ok", id |-> id]
             ELSE [st |-> [st1 EXCEPT !.failed = @ + 1],
                   res |-> StartError(result), id |-> 0]

----------------------------------------------------------------------------
(* stop_agent *)

\* agent.stop(): the loop is stopped, the instance leaves the pool, and closing
\* its page can fail
AgentStopFails(st, agent_id, closeOk) == agent_id \in st.instances /\ ~closeOk

stop_agent_always_broadcasts(st, agent_id, closeOk) ==
    LET st1 == [st EXCEPT !.agents = Remove(@, agent_id),
                          !.instances = @ \ {agent_id},
                          !.stops = IF agent_id \in DOMAIN st.agents THEN @ + 1 ELSE @]
    IN  IF agent_id \in DOMAIN st.agents /\ AgentStopFails(st, agent_id, closeOk)
        THEN [st |-> st1, res |-> "BrowserError"]
        ELSE [st |-> [st1 EXCEPT !.assignments = Remove(@, agent_id),
                                 !.sent = Append(@, StatusUpdate(agent_id, "Stopped"))],
              res |-> "Ok"]

stop_agent(st, agent_id, closeOk) ==
    IF agent_id \in DOMAIN st.agents
    THEN LET st1 == [st EXCEPT !.agents = Remove(@, agent_id),
                               !.instances = @ \ {agent_id},
                               !.stops = @ + 1]
         IN  IF AgentStopFails(st, agent_id, closeOk)
             THEN [st |-> st1, res |-> "BrowserError"]
             ELSE [st |-> [st1 EXCEPT !.assignments = Remove(@, agent_id),
                                      !.sent = Append(@, StatusUpdate(agent_id, "Stopped"))],
                   res |-> "Ok"]
    ELSE [st |-> st, res |-> "Ok"]

----------------------------------------------------------------------------
(* restart_agent *)

RestartedAssignment(assignment, new_agent_id) ==
    [assignment EXCEPT !.retry_attempts = @ + 1,
                       !.last_failure = TRUE,
                       !.agent_id = new_agent_id]

restart_agent_ignoring_unknown(st, agent_id, closeOk, outcome) ==
    IF agent_id \notin DOMAIN st.assignments
    THEN [st |-> st, res |-> "Ok"]
    ELSE LET assignment == st.assignments[agent_id]
             st1 == [st EXCEPT !.assignments = Remove(@, agent_id)]
             stopped == stop_agent(st1, agent_id, closeOk)
         IN  IF stopped.res # "Ok"
             THEN [st |-> stopped.st, res |-> stopped.res]
             ELSE LET spawned == spawn_agent(stopped.st, assignment.streamer,
                                             assignment.priority, outcome)
                  IN  IF spawned.res # "Ok"
                      THEN [st |-> spawned.st, res |-> spawned.res]
                      ELSE [st |-> [spawned.st EXCEPT !.assignments =
                                       Put(@, spawned.id,
                                           RestartedAssignment(assignment, spawned.id))],
                            res |-> "Ok"]

restart_agent(st, agent_id, closeOk, outcome) ==
    IF agent_id \notin DOMAIN st.assignments
    THEN [st |-> st, res |-> "AgentError"]
    ELSE LET assignment == st.assignments[agent_id]
             st1 == [st EXCEPT !.assignments = Remove(@, agent_id)]
             stopped == stop_agent(st1, agent_id, closeOk)
         IN  IF stopped.res # "Ok"
             THEN [st |-> stopped.st, res |-> stopped.res]
             ELSE LET spawned == spawn_agent(stopped.st, assignment.streamer,
                                             assignment.priority, outcome)
                  IN  IF spawned.res # "Ok"
                      THEN [st |-> spawned.st, res |-> spawned.res]
                      ELSE [st |-> [spawned.st EXCEPT !.assignments =
                                       Put(@, spawned.id,
                                           RestartedAssignment(assignment, spawned.id))],
                            res |-> "Ok"]

----------------------------------------------------------------------------
(* distribute_agents *)

\* every way agent.start() can end for one spawn_agent call
SpawnResults(st, streamer, priority) ==
    { spawn_agent(st, streamer, priority, outcome) : outcome \in StartOutcomes }

\* every way agent.stop() can end for one stop_agent call
StopResults(st, agent_id) ==
    { stop_agent(st, agent_id, closeOk) : closeOk \in BOOLEAN }

HasAgent(st, streamer) ==
    \E id \in DOMAIN st.assignments : st.assignments[id].streamer = streamer

InList(streamers, streamer) ==
    \E i \in 1..Len(streamers) : streamers[i] = streamer

RemovedAssignmentsKept(st, streamers) ==
    { id \in DOMAIN st.assignments : InList(streamers, st.assignments[id].streamer) }

\* the assignments whose streamer is no longer configured
RemovedAssignments(st, streamers) ==
    { id \in DOMAIN st.assignments : ~InList(streamers, st.assignments[id].streamer) }

\* first loop of distribute_agents: stop_agent(..)? for each removed streamer, in
\* the map's iteration order (any order), returning at the first error
RECURSIVE StopRemoved(_, _)
StopRemoved(st, toStop) ==
    IF toStop = {}
    THEN { [st |-> st, res |-> "Ok"] }
    ELSE UNION { UNION { IF r.res = "Ok" THEN StopRemoved(r.st, toStop \ {id})
                                         ELSE { r }
                         : r \in StopResults(st, id) }
                 : id \in toStop }

IndexPriorityFromOne(i) == i % 256

\* priority of the streamer at (1-based) position i: index as u8
IndexPriority(i) == (i - 1) % 256

\* second loop of distribute_agents, from position i with assigned_count agents
RECURSIVE AssignStreamers(_, _, _, _, _)
AssignStreamers(st, streamers, limit, i, assigned_count) ==
    IF i > Len(streamers) \/ assigned_count >= limit
    THEN { st }
    ELSE IF HasAgent(st, streamers[i])
         THEN AssignStreamers(st, streamers, limit, i + 1, assigned_count + 1)
         ELSE UNION { AssignStreamers(r.st, streamers, limit, i + 1,
                                      IF r.res = "Ok" THEN assigned_count + 1
                                                      ELSE assigned_count)
                      : r \in SpawnResults(st, streamers[i], IndexPriority(i)) }

\* the limit distribute_agents counts against: the stored configuration's
DistributeLimit(cfg) == cfg.max_concurrent

distribute_agents(st, cfg) ==
    UNION { IF r.res # "Ok"
            THEN { r }
            ELSE { [st |-> s, res |-> "Ok"]
                   : s \in AssignStreamers(r.st, cfg.streamers, DistributeLimit(cfg), 1, 0) }
            : r \in StopRemoved(st, RemovedAssignments(st, cfg.streamers)) }

----------------------------------------------------------------------------
(* update_config *)

update_config_on_any_change(st, old_config, new_config) ==
    IF old_config # new_config
    THEN { [st |-> r.st, res |-> r.res, config |-> new_config]
           : r \in distribute_agents(st, new_config) }
    ELSE { [st |-> st, res |-> "Ok", config |-> new_config] }

\* the configuration is stored first; the result carries the stored one
update_config(st, old_config, new_config) ==
    IF old_config.streamers # new_config.streamers
    THEN { [st |-> r.st, res |-> r.res, config |-> new_config]
           : r \in distribute_agents(st, new_config) }
    ELSE { [st |-> st, res |-> "Ok", config |-> new_config] }

----------------------------------------------------------------------------
(* scale_agents *)

HighUsageFromThreshold(m) ==
    m.cpu_usage >= 85 \/ m.memory_usage * 100 >= 85 * m.memory_total

HighUsage(m) == m.cpu_usage > 85 \/ m.memory_usage * 100 > 85 * m.memory_total

LowUsage(m) == m.cpu_usage < 60 /\ m.memory_usage * 100 < 70 * m.memory_total

\* max_by_key(priority): an assignment of the highest priority value (which of
\* several equal ones depends on the map's iteration order)
LowestPriorityAgents(st) ==
    { id \in DOMAIN st.assignments :
        \A other \in DOMAIN st.assignments :
            st.assignments[other].priority <= st.assignments[id].priority }

\* positions of the configured streamers that have no assignment
Unassigned(st, streamers) ==
    { i \in 1..Len(streamers) : ~HasAgent(st, streamers[i]) }

FirstUnassigned(st, streamers) ==
    CHOOSE i \in Unassigned(st, streamers) : \A j \in Unassigned(st, streamers) : i <= j

scale_agents(st, m, cfg) ==
    LET current_agents == Cardinality(DOMAIN st.agents)
    IN  IF HighUsage(m) /\ current_agents > 1
        THEN IF LowestPriorityAgents(st) = {}
             THEN { [st |-> st, res |-> "Ok"] }
             ELSE UNION { StopResults(st, id) : id \in LowestPriorityAgents(st) }
        ELSE IF LowUsage(m) /\ current_agents < cfg.max_concurrent
                            /\ Unassigned(st, cfg.streamers) # {}
             THEN LET i == FirstUnassigned(st, cfg.streamers)
                  IN  { [st |-> r.st, res |-> "Ok"]
                        : r \in SpawnResults(st, cfg.streamers[i], IndexPriority(i)) }
             ELSE { [st |-> st, res |-> "Ok"] }

----------------------------------------------------------------------------
(* rebalance_agents *)

\* AgentMetrics as get_agent_performance_metrics snapshots them: error_count
\* and uptime.as_secs(), around the rate of one error in ten seconds
MetricsSnapshots == [error_count : {0, 1}, uptime_secs : {0, 9, 10}]

ErrorRateHighFromThreshold(m) ==
    m.uptime_secs > 0 /\ m.error_count * 10 >= m.uptime_secs

\* error_rate > 0.1 with error_rate = error_count / uptime_secs, or 0.0 for
\* an uptime below one second; the f64 quotient of two such integers
\* compares with 0.1 as the exact quotient does
ErrorRateHigh(m) ==
    m.uptime_secs > 0 /\ m.error_count * 10 > m.uptime_secs

\* the loop over the snapshot, in the map's iteration order: what it can leave
\* and the ids it called restart_agent for
RECURSIVE RebalanceFrom(_, _, _)
RebalanceFrom(st, remaining, performance_metrics) ==
    IF remaining = {}
    THEN { [st |-> st, restarted |-> {}] }
    ELSE UNION {
           LET high == ErrorRateHigh(performance_metrics[agent_id])
               after == IF high
                        THEN { restart_agent(st, agent_id, closeOk, outcome).st :
                                 closeOk \in BOOLEAN, outcome \in StartOutcomes }
                        ELSE { st }
           IN  UNION { { [st |-> rest.st,
                          restarted |-> rest.restarted
                                          \cup (IF high THEN {agent_id} ELSE {})] :
                          rest \in RebalanceFrom(next, remaining \ {agent_id},
                                                 performance_metrics) } :
                       next \in after }
           : agent_id \in remaining }

rebalance_agents(st, performance_metrics) ==
    { [st |-> done.st, res |-> "Ok", restarted |-> done.restarted] :
        done \in RebalanceFrom(st, DOMAIN st.agents, performance_metrics) }

----------------------------------------------------------------------------
(* One tick of the dynamic scaler, the config watcher and the recovery loop *)

ResourceAlert(alert) == [kind |-> "ResourceAlert", agent_id |-> 0, alert |-> alert]

CriticalUsage(m) == m.cpu_usage > 90 \/ m.memory_usage * 100 > 90 * m.memory_total

\* the dynamic scaler's tick: at critical usage with more than one agent it
\* sends an alert; with resources to spare it logs
dynamic_scaling_tick(st, m) ==
    IF CriticalUsage(m) /\ Cardinality(DOMAIN st.agents) > 1
    THEN { [st EXCEPT !.sent = Append(@, ResourceAlert("Resource usage critical"))] }
    ELSE { st }

config_watcher_redistributes(st, old_config, new_config) ==
    { [st |-> [r.st EXCEPT !.sent = Append(@, ResourceAlert("Configuration updated"))],
       config |-> r.config]
      : r \in update_config(st, old_config, new_config) }

\* the config watcher's branch for Some(new_config): the stored configuration
\* is replaced and one alert is sent
config_watcher_received(st, old_config, new_config) ==
    { [st |-> [st EXCEPT !.sent = Append(@, ResourceAlert("Configuration updated"))],
       config |-> new_config] }

----------------------------------------------------------------------------
(* The orchestrator's steps *)

\* the fresh ids and the retry counters stay within the model's bounds
WithinBounds(r) ==
    /\ r.st.next_id <= MaxIds + 1
    /\ \A id \in DOMAIN r.st.assignments :
           r.st.assignments[id].retry_attempts <= MaxRetries

\* the operation's result becomes the orchestrator's state
Stored(r) ==
    /\ WithinBounds(r)
    /\ agents' = r.st.agents
    /\ agent_assignments' = r.st.assignments
    /\ instances' = r.st.instances
    /\ next_id' = r.st.next_id
    /\ total_agents_spawned' = r.st.total

\* an operation called from outside start() and stop()
Store(r) ==
    /\ Stored(r)
    /\ UNCHANGED OutsideOrchestrator

\* String::new()
EmptyString == <<>>

\* AgentStatus; the reason is empty except for Error(reason)
Status(state, reason) == [state |-> state, reason |-> reason]

\* ScrapingAgent::new
NewAgent ==
    /\ status = Status("Idle", "")
    /\ metrics = [status |-> Status("Idle", ""), error_count |-> 0,
                  messages_scraped |-> 0, last_message_time |-> 0]
    /\ browser_instance = FALSE
    /\ browser_instance_id = FALSE
    /\ shutdown_signal = FALSE
    /\ monitoring_task = "none"
    /\ consecutive_errors = 0
    /\ last_html_hash = EmptyString
    /\ agent_pc = "new"
    /\ backoff_duration = 0
    /\ chat_receivers = "none"
    /\ chat_sent = 0
    /\ forwarder = [pc |-> "none", next |-> 1]
    /\ stream_buffer = <<>>
    /\ stream_received = <<>>

\* monitoring_task, scaling_task, config_watcher_task, agent_recovery_task
BackgroundTasks == {"monitoring", "scaling", "config_watcher", "agent_recovery"}

\* tasks that call the pool at the same time
PoolCallers == {1, 2, 3}

\* BrowserPool::new: no instance yet, no call in flight
NewBrowserPool ==
    /\ pool_calls = [c \in PoolCallers |-> [pc |-> "idle", res |-> "none"]]
    /\ next_instance_id = 1

\* the tokio RwLocks: the API's lock around the orchestrator, the orchestrator's
\* maps and configuration, one agent's status and metrics, the pool's instances
Locks == {"orchestrator", "agents", "assignments", "status", "metrics", "config", "pool"}

\* the tasks that take them
LockUsers == {"operation", "accessor", "system_monitor", "scaler", "config_watcher",
              "recovery", "agent_loop"}

\* AgentOrchestrator::new
NewOrchestrator ==
    /\ agents = EmptyMap
    /\ agent_assignments = EmptyMap
    /\ instances = {}
    /\ max_concurrent = config.max_concurrent
    /\ system_metrics \in { m \in MetricsChoices : m.cpu_usage = 0 }
    /\ total_agents_spawned = 0
    /\ next_id = 1
    /\ orchestrator_pc = "new"
    /\ background_tasks = [t \in BackgroundTasks |-> "none"]
    /\ shutdown_rx = {}
    /\ agent_ids = {}
    /\ agents_to_restart = {}
    /\ agents_lock = "free"
    /\ stop_agent_pc = "idle"
    /\ reader_pc = "idle"
    /\ lock_holders = [l \in Locks |-> {}]
    /\ lock_queue = [l \in Locks |-> <<>>]
    /\ lock_tasks = [p \in LockUsers |->
                        [prog |-> IF p = "agent_loop" THEN "none" ELSE "idle", pc |-> 1]]
    /\ lock_shutdown = FALSE

Init ==
    /\ config \in Configs
    /\ NewOrchestrator
    /\ NewAgent
    /\ NewBrowserPool

\* POST /agents (create_agent), or any other direct caller
SpawnAgent ==
    \E streamer \in Streamers, priority \in ApiPriorities :
      \E r \in SpawnResults(OpState, streamer, priority) :
        /\ Store(r)
        /\ UNCHANGED <<config, max_concurrent, system_metrics>>

\* POST /agents/:id/stop
StopAgent ==
    \E agent_id \in AgentIds :
      \E r \in StopResults(OpState, agent_id) :
        /\ Store(r)
        /\ UNCHANGED <<config, max_concurrent, system_metrics>>

\* POST /agents/:id/restart and POST /agents/:id/start
RestartAgent ==
    \E agent_id \in AgentIds, closeOk \in BOOLEAN, outcome \in StartOutcomes :
      LET r == restart_agent(OpState, agent_id, closeOk, outcome)
      IN  /\ Store(r)
          /\ UNCHANGED <<config, max_concurrent, system_metrics>>

DistributeAgents ==
    \E r \in distribute_agents(OpState, config) :
        /\ Store(r)
        /\ UNCHANGED <<config, max_concurrent, system_metrics>>

UpdateConfig ==
    \E new_config \in Configs :
      \E r \in update_config(OpState, config, new_config) :
        /\ Store(r)
        /\ config' = r.config
        /\ UNCHANGED <<max_concurrent, system_metrics>>

ScaleAgents ==
    \E r \in scale_agents(OpState, system_metrics, config) :
        /\ Store(r)
        /\ UNCHANGED <<config, max_concurrent, system_metrics>>

RebalanceAgents ==
    \E performance_metrics \in [DOMAIN agents -> MetricsSnapshots] :
      \E r \in rebalance_agents(OpState, performance_metrics) :
        /\ Store(r)
        /\ UNCHANGED <<config, max_concurrent, system_metrics>>

\* an agent's monitoring loop gives up: it writes Error and exits
MonitoringLoopFails ==
    \E agent_id \in DOMAIN agents :
        /\ agents[agent_id].status = "Running"
        /\ agents' = [agents EXCEPT ![agent_id].status = "Error"]
        /\ UNCHANGED <<agent_assignments, instances, config, max_concurrent,
                       system_metrics, total_agents_spawned, next_id>>
        /\ UNCHANGED OutsideOrchestrator

\* the system monitor's tick stores fresh metrics
SystemMonitorTick ==
    \E m \in MetricsChoices :
        /\ system_metrics' = m
        /\ UNCHANGED <<agents, agent_assignments, instances, config, max_concurrent,
                       total_agents_spawned, next_id>>
        /\ UNCHANGED OutsideOrchestrator

\* the config watcher stores a received configuration and sends one alert
ConfigWatcherUpdate ==
    \E new_config \in Configs :
      \E r \in config_watcher_received(OpState, config, new_config) :
        /\ Store(r)
        /\ config' = r.config
        /\ UNCHANGED <<max_concurrent, system_metrics>>

Next ==
    \/ SpawnAgent
    \/ StopAgent
    \/ RestartAgent
    \/ DistributeAgents
    \/ UpdateConfig
    \/ ScaleAgents
    \/ RebalanceAgents
    \/ MonitoringLoopFails
    \/ SystemMonitorTick
    \/ ConfigWatcherUpdate

Spec == Init /\ [][Next]_vars

----------------------------------------------------------------------------
(* One agent: start(), its monitoring task, stop() *)

MAX_CONSECUTIVE_ERRORS == 10

\* set_status writes the status and its copy in the metrics
set_status(new_status) ==
    /\ status' = new_status
    /\ metrics' = [metrics EXCEPT !.status = new_status]

\* the task's own writes go to the status only
WriteStatus(new_status) ==
    /\ status' = new_status
    /\ UNCHANGED metrics

\* how initialize_browser and navigate_to_twitch_stream can end in start()
AgentStartOutcomes == {"ok", "no_manager", "init_err", "nav_err"}

InstanceAcquiredOnSuccess(outcome) == outcome = "ok"

\* whether start() acquired a browser instance: initialize_browser succeeded
InstanceAcquired(outcome) == outcome \in {"ok", "nav_err"}

\* the Error(reason) start() sets for a failed step
StartFailure(outcome) ==
    CASE outcome = "no_manager" ->
              Status("Error", "Browser init failed: No browser manager available")
      [] outcome = "init_err" -> Status("Error", "Browser init failed")
      [] outcome = "nav_err"  -> Status("Error", "Navigation failed")

\* start(): Starting
StartBegin ==
    /\ agent_pc = "new"
    /\ set_status(Status("Starting", ""))
    /\ agent_pc' = "initializing"
    /\ UNCHANGED <<browser_instance, browser_instance_id, shutdown_signal,
                   monitoring_task, consecutive_errors, last_html_hash>>
    /\ UNCHANGED backoff_duration

\* start(): initialize_browser and navigate_to_twitch_stream
StartBrowser ==
    /\ agent_pc = "initializing"
    /\ \E outcome \in AgentStartOutcomes :
          /\ browser_instance' = InstanceAcquired(outcome)
          /\ browser_instance_id' = InstanceAcquired(outcome)
          /\ IF outcome = "ok"
             THEN /\ UNCHANGED <<status, metrics>>
                  /\ agent_pc' = "spawn_monitoring"
             ELSE /\ set_status(StartFailure(outcome))
                  /\ agent_pc' = "start_failed"
    /\ UNCHANGED <<shutdown_signal, monitoring_task, consecutive_errors,
                   last_html_hash>>
    /\ UNCHANGED backoff_duration

\* start_message_monitoring: the task is spawned and starts its initial delay
SpawnMonitoring ==
    /\ agent_pc = "spawn_monitoring"
    /\ monitoring_task' = "initial_delay"
    /\ agent_pc' = "set_running"
    /\ UNCHANGED <<status, metrics, browser_instance, browser_instance_id,
                   shutdown_signal, consecutive_errors, last_html_hash>>
    /\ UNCHANGED backoff_duration

\* start(): Running, written after the task was spawned
SetRunning ==
    /\ agent_pc = "set_running"
    /\ set_status(Status("Running", ""))
    /\ agent_pc' = "started"
    /\ UNCHANGED <<browser_instance, browser_instance_id, shutdown_signal,
                   monitoring_task, consecutive_errors, last_html_hash>>
    /\ UNCHANGED backoff_duration

\* the task: the initial delay is over
InitialDelayDone ==
    /\ monitoring_task = "initial_delay"
    /\ monitoring_task' = "select"
    /\ UNCHANGED <<status, metrics, browser_instance, browser_instance_id,
                   shutdown_signal, consecutive_errors, last_html_hash, agent_pc>>
    /\ UNCHANGED backoff_duration

\* spawn_agent's timeout ends start() at one of its awaits and the agent is
\* dropped with what it holds: the shutdown sender is dropped and closes the
\* channel, the task handle is dropped and detaches the task, and, without a
\* Drop implementation, the browser instance stays where it is
DropAgent ==
    /\ agent_pc \in {"initializing", "spawn_monitoring", "set_running"}
    /\ agent_pc' = "dropped"
    /\ UNCHANGED <<status, metrics, browser_instance, browser_instance_id,
                   shutdown_signal, monitoring_task, consecutive_errors,
                   last_html_hash>>
    /\ UNCHANGED backoff_duration

ShutdownSignalled == shutdown_signal

\* shutdown_rx.recv() is ready: a signal waits in the channel, or the sender
\* was dropped and recv returns None, which the branch's `_` matches too
ShutdownReady == shutdown_signal \/ agent_pc = "dropped"

\* the task: select! takes the shutdown branch
ShutdownReceived ==
    /\ monitoring_task = "select"
    /\ ShutdownReady
    /\ shutdown_signal' = FALSE
    /\ monitoring_task' = "exited"
    /\ UNCHANGED <<status, metrics, browser_instance, browser_instance_id,
                   consecutive_errors, last_html_hash, agent_pc>>
    /\ UNCHANGED backoff_duration

\* the task: select! takes the tick branch and looks the instance up
Tick ==
    /\ monitoring_task = "select"
    /\ IF browser_instance
       THEN /\ monitoring_task' = "get_chat_html"
            /\ UNCHANGED <<status, metrics>>
       ELSE /\ WriteStatus(Status("Error", "Browser instance not found"))
            /\ monitoring_task' = "exited"
    /\ UNCHANGED <<browser_instance, browser_instance_id, shutdown_signal,
                   consecutive_errors, last_html_hash, agent_pc>>
    /\ UNCHANGED backoff_duration

\* format!("{:x}", md5::compute(&html))
md5_hex(html) == <<"md5", html>>

\* TwitchChatParser::parse_chat_html by its declared result, a function of the
\* page: Ok with the number of valid messages, or Err(ScrapingError)
parse_chat_html(html) ==
    CASE html = 1 -> [ok |-> TRUE,  messages |-> 0]
      [] html = 2 -> [ok |-> TRUE,  messages |-> 1]
      [] OTHER    -> [ok |-> FALSE, messages |-> 0]

HashUnchangedFromEmpty(current_hash, last_hash) == current_hash = EmptyString

\* the change detection of extract_and_process_messages
HashUnchanged(current_hash, last_hash) == current_hash = last_hash

\* extract_and_process_messages: the result kind and message count, the
\* last_html_hash and the metrics it leaves, the number of messages it sent to
\* the broadcaster and whether it called the parser
\* the subscribers of the chat channel: none, one that keeps up, one whose
\* buffer is full
ReceiverStates == {"none", "waiting", "lagging"}

\* message_broadcaster.send: it returns at once, with an error when no
\* receiver exists
send(receivers) == IF receivers = "none" THEN "SendError" ELSE "Ok"

SendFailsWithoutReceivers(send_result) == send_result = "SendError"

\* whether the result of a send ends the tick with an error: it is only logged
SendFails(send_result) == FALSE

HashKeptOnParseError(current_hash, last_hash) == last_hash

\* the last_html_hash a tick leaves when the parser returns Err: the hash was
\* assigned before the parser was called
HashOnParseError(current_hash, last_hash) == current_hash

PublishedUnseen(messages, scraped) ==
    IF scraped >= messages THEN 0 ELSE messages - scraped

\* how many of a parsed page's messages are sent and counted: all of them,
\* whatever was scraped from earlier pages
Published(messages, scraped) == messages

extract_and_process_messages(last_hash, m, fetchOk, html, receivers) ==
    LET current_hash == md5_hex(html)
        untouched == [res |-> "Ok", message_count |-> 0, last_html_hash |-> last_hash,
                      metrics |-> m, published |-> 0, parser_called |-> FALSE]
    IN  IF ~fetchOk
        THEN [untouched EXCEPT !.res = "BrowserError"]
        ELSE IF HashUnchanged(current_hash, last_hash)
        THEN untouched
        ELSE LET parsed == parse_chat_html(html)
                 recorded == [untouched EXCEPT !.last_html_hash = current_hash,
                                               !.parser_called = TRUE]
             IN  IF ~parsed.ok
                 THEN [recorded EXCEPT
                          !.res = "ParseError",
                          !.last_html_hash = HashOnParseError(current_hash, last_hash)]
                 ELSE IF parsed.messages > 0 /\ SendFails(send(receivers))
                 THEN [recorded EXCEPT !.res = "SendError", !.published = 1]
                 ELSE LET message_count ==
                              Published(parsed.messages, m.messages_scraped)
                      IN  [recorded EXCEPT
                              !.message_count = message_count,
                              !.published = message_count,
                              !.metrics = IF message_count > 0
                                          THEN [m EXCEPT
                                                  !.messages_scraped = @ + message_count,
                                                  !.last_message_time = @ + 1]
                                          ELSE m]

\* this tick's extract step on a fetched page
Extracted(html) ==
    extract_and_process_messages(last_html_hash, metrics, TRUE, html, chat_receivers)

\* the ceiling on consecutive failed ticks
TooManyErrorsAbove(n) == n > MAX_CONSECUTIVE_ERRORS

TooManyErrors(n) == n >= MAX_CONSECUTIVE_ERRORS

\* 2_u64.pow(consecutive_errors.min(5))
BackoffFactorUncapped(errors) == 2 ^ errors

BackoffFactor(errors) == 2 ^ (IF errors < 5 THEN errors ELSE 5)

\* the backoff sleep in ms after the errors-th consecutive failed tick
BackoffMillis(errors) == 1000 * BackoffFactor(errors)

ErrorCountedTwice(error_count) == error_count + 2

\* metrics_guard.error_count += 1
ErrorCounted(error_count) == error_count + 1

ExtractErrorArmCountsAll(res, errors) ==
    IF TooManyErrors(errors)
    THEN [task |-> "exited", reason |-> "Too many consecutive errors", counted |-> TRUE,
          backoff |-> 0]
    ELSE [task |-> "backoff", reason |-> "", counted |-> TRUE,
          backoff |-> BackoffMillis(errors)]

\* the Err(e) arm of the tick, with consecutive_errors already incremented:
\* where the task goes, the Error reason it writes (none when empty) and
\* whether error_count is incremented
ExtractErrorArm(res, errors) ==
    IF res = "BrowserError"
    THEN [task |-> "exited", reason |-> "Browser error", counted |-> FALSE,
          backoff |-> 0]
    ELSE IF TooManyErrors(errors)
    THEN [task |-> "exited", reason |-> "Too many consecutive errors", counted |-> TRUE,
          backoff |-> 0]
    ELSE [task |-> "backoff", reason |-> "", counted |-> TRUE,
          backoff |-> BackoffMillis(errors)]

\* the task: get_chat_html fails; every error of it is a BrowserError
TickBrowserError ==
    /\ monitoring_task = "get_chat_html"
    /\ LET res == extract_and_process_messages(last_html_hash, metrics, FALSE, 1,
                                               chat_receivers).res
           arm == ExtractErrorArm(res, consecutive_errors + 1)
       IN  /\ res = "BrowserError"
           /\ consecutive_errors' = consecutive_errors + 1
           /\ metrics' = IF arm.counted
                         THEN [metrics EXCEPT !.error_count = ErrorCounted(@)]
                         ELSE metrics
           /\ status' = IF arm.reason = "" THEN status ELSE Status("Error", arm.reason)
           /\ monitoring_task' = arm.task
           /\ backoff_duration' = arm.backoff
    /\ UNCHANGED <<browser_instance, browser_instance_id, shutdown_signal,
                   last_html_hash, agent_pc>>

\* the task: the fetched page has the hash of the previous one, Ok(0)
TickUnchanged ==
    /\ monitoring_task = "get_chat_html"
    /\ \E html \in Payloads :
          /\ Extracted(html).res = "Ok"
          /\ ~Extracted(html).parser_called
          /\ last_html_hash' = Extracted(html).last_html_hash
          /\ metrics' = Extracted(html).metrics
    /\ consecutive_errors' = 0
    /\ monitoring_task' = "select"
    /\ UNCHANGED <<status, browser_instance, browser_instance_id, shutdown_signal,
                   agent_pc>>
    /\ UNCHANGED backoff_duration

\* the task: a changed page is recorded and parsed, Ok(message_count)
TickParsed ==
    /\ monitoring_task = "get_chat_html"
    /\ \E html \in Payloads :
          /\ Extracted(html).res = "Ok"
          /\ Extracted(html).parser_called
          /\ Extracted(html).metrics.messages_scraped <= MaxScraped
          /\ last_html_hash' = Extracted(html).last_html_hash
          /\ metrics' = Extracted(html).metrics
    /\ consecutive_errors' = 0
    /\ monitoring_task' = "select"
    /\ UNCHANGED <<status, browser_instance, browser_instance_id, shutdown_signal,
                   agent_pc>>
    /\ UNCHANGED backoff_duration

\* the task: a changed page is recorded and the parser returns Err, which is
\* not a BrowserError
TickParseError ==
    /\ monitoring_task = "get_chat_html"
    /\ metrics.error_count < MaxErrorCount
    /\ \E html \in Payloads :
          LET arm == ExtractErrorArm(Extracted(html).res, consecutive_errors + 1)
          IN  /\ Extracted(html).res = "ParseError"
              /\ last_html_hash' = Extracted(html).last_html_hash
              /\ metrics' = IF arm.counted
                            THEN [Extracted(html).metrics EXCEPT
                                     !.error_count = ErrorCounted(@)]
                            ELSE Extracted(html).metrics
              /\ status' = IF arm.reason = "" THEN status
                                              ELSE Status("Error", arm.reason)
              /\ monitoring_task' = arm.task
              /\ backoff_duration' = arm.backoff
    /\ consecutive_errors' = consecutive_errors + 1
    /\ UNCHANGED <<browser_instance, browser_instance_id, shutdown_signal, agent_pc>>

\* the task: the backoff sleep is over
BackoffDone ==
    /\ monitoring_task = "backoff"
    /\ monitoring_task' = "select"
    /\ backoff_duration' = 0
    /\ UNCHANGED <<status, metrics, browser_instance, browser_instance_id,
                   shutdown_signal, consecutive_errors, last_html_hash, agent_pc>>

\* stop(): Stopping
StopBegin ==
    /\ agent_pc = "started"
    /\ set_status(Status("Stopping", ""))
    /\ agent_pc' = "send_shutdown"
    /\ UNCHANGED <<browser_instance, browser_instance_id, shutdown_signal,
                   monitoring_task, consecutive_errors, last_html_hash>>
    /\ UNCHANGED backoff_duration

SendShutdownLost ==
    /\ agent_pc = "send_shutdown"
    /\ shutdown_signal' = FALSE
    /\ agent_pc' = "join"
    /\ UNCHANGED <<status, metrics, browser_instance, browser_instance_id,
                   monitoring_task, consecutive_errors, last_html_hash>>
    /\ UNCHANGED backoff_duration

\* stop_message_monitoring: the signal is sent; the send fails, and is ignored,
\* when the task has exited and dropped the receiver
SendShutdown ==
    /\ agent_pc = "send_shutdown"
    /\ shutdown_signal' = (monitoring_task # "exited")
    /\ agent_pc' = "join"
    /\ UNCHANGED <<status, metrics, browser_instance, browser_instance_id,
                   monitoring_task, consecutive_errors, last_html_hash>>
    /\ UNCHANGED backoff_duration

JoinTaskDetached ==
    /\ agent_pc = "join"
    /\ agent_pc' = "cleanup_browser"
    /\ UNCHANGED <<status, metrics, browser_instance, browser_instance_id,
                   shutdown_signal, monitoring_task, consecutive_errors,
                   last_html_hash>>
    /\ UNCHANGED backoff_duration

\* stop_message_monitoring: the task is awaited
JoinTask ==
    /\ agent_pc = "join"
    /\ monitoring_task = "exited"
    /\ agent_pc' = "cleanup_browser"
    /\ UNCHANGED <<status, metrics, browser_instance, browser_instance_id,
                   shutdown_signal, monitoring_task, consecutive_errors,
                   last_html_hash>>
    /\ UNCHANGED backoff_duration

\* stop(): cleanup_browser, then Stopped; closing the page can fail, and then
\* stop() returns the error with the instance gone from the pool
CleanupBrowser ==
    /\ agent_pc = "cleanup_browser"
    /\ browser_instance' = FALSE
    /\ \E closeOk \in BOOLEAN :
          IF browser_instance_id /\ browser_instance /\ ~closeOk
          THEN /\ UNCHANGED <<status, metrics, browser_instance_id>>
               /\ agent_pc' = "stop_failed"
          ELSE /\ set_status(Status("Stopped", ""))
               /\ browser_instance_id' = FALSE
               /\ agent_pc' = "stopped"
    /\ UNCHANGED <<shutdown_signal, monitoring_task, consecutive_errors,
                   last_html_hash>>
    /\ UNCHANGED backoff_duration

\* BrowserPool::cleanup_old_instances removes the agent's instance
CleanupOldInstances ==
    /\ browser_instance
    /\ agent_pc \in {"set_running", "started", "send_shutdown", "join"}
    /\ browser_instance' = FALSE
    /\ UNCHANGED <<status, metrics, browser_instance_id, shutdown_signal,
                   monitoring_task, consecutive_errors, last_html_hash, agent_pc>>
    /\ UNCHANGED backoff_duration

\* get_status and get_metrics, which the orchestrator's get_agent_status
\* and get_agent_metrics return
get_status == status

get_metrics == metrics

LoopInit ==
    /\ config = [streamers |-> <<"a", "b">>, max_concurrent |-> 2]
    /\ NewOrchestrator
    /\ system_metrics.memory_usage = 50
    /\ NewAgent
    /\ NewBrowserPool

AgentStep ==
    \/ StartBegin
    \/ StartBrowser
    \/ SpawnMonitoring
    \/ SetRunning
    \/ InitialDelayDone
    \/ ShutdownReceived
    \/ Tick
    \/ TickBrowserError
    \/ TickUnchanged
    \/ TickParsed
    \/ TickParseError
    \/ BackoffDone
    \/ StopBegin
    \/ SendShutdown
    \/ JoinTask
    \/ CleanupBrowser
    \/ CleanupOldInstances
    \/ DropAgent

\* subscribe() and message_stream() add a receiver; a receiver that does not
\* read fills its buffer
ChatReceiversChange ==
    /\ \/ chat_receivers = "none" /\ chat_receivers' = "waiting"
       \/ chat_receivers = "waiting" /\ chat_receivers' = "lagging"
    /\ UNCHANGED <<chat_sent, forwarder, stream_buffer, stream_received>>
    /\ UNCHANGED <<ovars, lvars, svars, pvars, kvars, dvars>>

LoopNext ==
    \/ AgentStep /\ UNCHANGED OutsideAgent
    \/ ChatReceiversChange

LoopSpec == LoopInit /\ [][LoopNext]_vars

\* get_chat_html returns
TickReturns ==
    (TickBrowserError \/ TickUnchanged \/ TickParsed \/ TickParseError)
        /\ UNCHANGED OutsideAgent

\* the code of stop() runs on, sleeps end, browser calls return, and select!,
\* which picks at random among its ready branches, does not pass over a
\* waiting shutdown signal for ever
LoopFairness ==
    /\ WF_vars(SendShutdown /\ UNCHANGED OutsideAgent)
    /\ WF_vars(JoinTask /\ UNCHANGED OutsideAgent)
    /\ WF_vars(CleanupBrowser /\ UNCHANGED OutsideAgent)
    /\ WF_vars(InitialDelayDone /\ UNCHANGED OutsideAgent)
    /\ WF_vars(BackoffDone /\ UNCHANGED OutsideAgent)
    /\ WF_vars(TickReturns)
    /\ SF_vars(ShutdownReceived /\ UNCHANGED OutsideAgent)

LoopFairSpec == LoopSpec /\ LoopFairness

----------------------------------------------------------------------------
(* The orchestrator from start() to stop(), with its background loops *)

\* start(): the shutdown channel and the four loops are created, then
\* distribute_agents runs; its error is returned with the loops running
OrchestratorStart ==
    /\ orchestrator_pc = "new"
    /\ \E r \in distribute_agents(OpState, config) : Stored(r)
    /\ orchestrator_pc' = "running"
    /\ background_tasks' = [t \in BackgroundTasks |-> "select"]
    /\ shutdown_rx' = {}
    /\ UNCHANGED <<config, max_concurrent, system_metrics, agent_ids, agents_to_restart>>
    /\ UNCHANGED OutsideLifecycle

\* an operation a caller makes between start() and stop()
ApiStopAgent == orchestrator_pc = "running" /\ StopAgent

\* shutdown_rx.recv() is the branch select! takes: the loop breaks
BackgroundShutdown(t) ==
    /\ background_tasks[t] = "select"
    /\ t \in shutdown_rx
    /\ background_tasks' = [background_tasks EXCEPT ![t] = "exited"]
    /\ shutdown_rx' = shutdown_rx \ {t}
    /\ UNCHANGED <<orchestrator_pc, agent_ids, agents_to_restart>>
    /\ UNCHANGED <<ovars, OutsideLifecycle>>

\* the system monitor's tick: it stores the metrics it sampled
SystemMonitorStores ==
    /\ background_tasks["monitoring"] = "select"
    /\ \E m \in MetricsChoices : system_metrics' = m
    /\ UNCHANGED background_tasks
    /\ UNCHANGED <<agents, agent_assignments, instances, config, max_concurrent,
                   total_agents_spawned, next_id>>
    /\ UNCHANGED <<orchestrator_pc, shutdown_rx, agent_ids, agents_to_restart>>
    /\ UNCHANGED OutsideLifecycle

\* the dynamic scaler's interval fires
DynamicScalerTick ==
    /\ background_tasks["scaling"] = "select"
    /\ background_tasks' = [background_tasks EXCEPT !["scaling"] = "tick"]
    /\ UNCHANGED <<orchestrator_pc, shutdown_rx, agent_ids, agents_to_restart>>
    /\ UNCHANGED <<ovars, OutsideLifecycle>>

\* the dynamic scaler reads the metrics and sends its alerts
DynamicScalerAlerts ==
    /\ background_tasks["scaling"] = "tick"
    /\ \E st \in dynamic_scaling_tick(OpState, system_metrics) : Stored([st |-> st])
    /\ background_tasks' = [background_tasks EXCEPT !["scaling"] = "select"]
    /\ UNCHANGED <<config, max_concurrent, system_metrics>>
    /\ UNCHANGED <<orchestrator_pc, shutdown_rx, agent_ids, agents_to_restart>>
    /\ UNCHANGED OutsideLifecycle

\* the config watcher receives a configuration and stores it
ConfigWatcherStores ==
    /\ background_tasks["config_watcher"] = "select"
    /\ \E new_config \in Configs :
         \E r \in config_watcher_received(OpState, config, new_config) :
            /\ Stored(r)
            /\ config' = r.config
    /\ UNCHANGED background_tasks
    /\ UNCHANGED <<max_concurrent, system_metrics>>
    /\ UNCHANGED <<orchestrator_pc, shutdown_rx, agent_ids, agents_to_restart>>
    /\ UNCHANGED OutsideLifecycle

\* watch_config_changes failed or the config channel closed: the task ends
ConfigWatcherEnds ==
    /\ background_tasks["config_watcher"] = "select"
    /\ background_tasks' = [background_tasks EXCEPT !["config_watcher"] = "exited"]
    /\ UNCHANGED <<orchestrator_pc, shutdown_rx, agent_ids, agents_to_restart>>
    /\ UNCHANGED <<ovars, OutsideLifecycle>>

ErrorAgentsMissed(registered) ==
    { agent_id \in DOMAIN registered : registered[agent_id].status # "Error" }

\* the ids the recovery loop pushes: the agents whose status is Error(_)
ErrorAgents(registered) ==
    { agent_id \in DOMAIN registered : registered[agent_id].status = "Error" }

\* the recovery loop's tick: it scans the agents map under its read lock
RecoveryScan ==
    /\ background_tasks["agent_recovery"] = "select"
    /\ agents_to_restart' = ErrorAgents(agents)
    /\ background_tasks' = [background_tasks EXCEPT !["agent_recovery"] = "listed"]
    /\ UNCHANGED <<orchestrator_pc, shutdown_rx, agent_ids>>
    /\ UNCHANGED <<ovars, OutsideLifecycle>>

\* the recovery loop logs a warning for each listed agent and drops the list
RecoveryLogged ==
    /\ background_tasks["agent_recovery"] = "listed"
    /\ agents_to_restart' = {}
    /\ background_tasks' = [background_tasks EXCEPT !["agent_recovery"] = "select"]
    /\ UNCHANGED <<orchestrator_pc, shutdown_rx, agent_ids>>
    /\ UNCHANGED <<ovars, OutsideLifecycle>>

\* stop(): the taken sender broadcasts (), then stop_all_agents collects the keys
StopOrchestrator ==
    /\ orchestrator_pc \in {"new", "running"}
    /\ shutdown_rx' = { t \in BackgroundTasks : background_tasks[t] \notin {"none", "exited"} }
    /\ agent_ids' = DOMAIN agents
    /\ orchestrator_pc' = "stop_agents"
    /\ UNCHANGED <<background_tasks, agents_to_restart>>
    /\ UNCHANGED <<ovars, OutsideLifecycle>>

StopAllAgentsAborts(ids, agent_id, res) ==
    IF res = "Ok" THEN ids \ {agent_id} ELSE {}

\* stop_all_agents after one stop_agent: an error is logged and the loop goes on
StopAllAgentsNext(ids, agent_id, res) == ids \ {agent_id}

StopNextAgent ==
    /\ orchestrator_pc = "stop_agents"
    /\ \E agent_id \in agent_ids :
         \E r \in StopResults(OpState, agent_id) :
            /\ Stored(r)
            /\ agent_ids' = StopAllAgentsNext(agent_ids, agent_id, r.res)
    /\ UNCHANGED <<config, max_concurrent, system_metrics>>
    /\ UNCHANGED <<orchestrator_pc, background_tasks, shutdown_rx, agents_to_restart>>
    /\ UNCHANGED OutsideLifecycle

\* stop_all_agents returns Ok(()) when its list is exhausted
StopAllAgentsDone ==
    /\ orchestrator_pc = "stop_agents"
    /\ agent_ids = {}
    /\ orchestrator_pc' = "await_tasks"
    /\ UNCHANGED <<background_tasks, shutdown_rx, agent_ids, agents_to_restart>>
    /\ UNCHANGED <<ovars, OutsideLifecycle>>

\* the four task.await of stop() have all returned
AwaitTasks == \A t \in BackgroundTasks : background_tasks[t] \in {"none", "exited"}

\* stop() returns Ok(())
StopReturns ==
    /\ orchestrator_pc = "await_tasks"
    /\ AwaitTasks
    /\ orchestrator_pc' = "stopped"
    /\ UNCHANGED <<background_tasks, shutdown_rx, agent_ids, agents_to_restart>>
    /\ UNCHANGED <<ovars, OutsideLifecycle>>

LifecycleNext ==
    \/ OrchestratorStart
    \/ ApiStopAgent
    \/ MonitoringLoopFails
    \/ \E t \in BackgroundTasks : BackgroundShutdown(t)
    \/ SystemMonitorStores
    \/ DynamicScalerTick
    \/ DynamicScalerAlerts
    \/ ConfigWatcherStores
    \/ ConfigWatcherEnds
    \/ RecoveryScan
    \/ RecoveryLogged
    \/ StopOrchestrator
    \/ StopNextAgent
    \/ StopAllAgentsDone
    \/ StopReturns

\* the code of stop() and of each tick runs on, the recovery interval fires,
\* and select!, which picks at random among its ready branches, does not pass
\* over a waiting shutdown signal for ever
LifecycleFairness ==
    /\ WF_vars(StopNextAgent)
    /\ WF_vars(StopAllAgentsDone)
    /\ WF_vars(StopReturns)
    /\ WF_vars(DynamicScalerAlerts)
    /\ WF_vars(RecoveryScan)
    /\ WF_vars(RecoveryLogged)
    /\ \A t \in BackgroundTasks : SF_vars(BackgroundShutdown(t))

LifecycleInit == LoopInit

LifecycleSpec == LifecycleInit /\ [][LifecycleNext]_vars /\ LifecycleFairness

----------------------------------------------------------------------------
(* Concurrent callers of one BrowserPool *)

InstanceIds == 1..MaxInstanceIds

PoolCall(c, pc, res) == [pool_calls EXCEPT ![c] = [pc |-> pc, res |-> res]]

\* create_instance: the count is read under the read lock, which is dropped
\* before the page is created
CreateInstanceCheck(c) ==
    /\ pool_calls[c].pc = "idle"
    /\ pool_calls' = IF PoolFull(OpState)
                     THEN PoolCall(c, "idle", "ResourceLimit")
                     ELSE PoolCall(c, "new_page", "none")
    /\ UNCHANGED <<next_instance_id, ovars, OutsidePool>>

\* create_instance: new_page fails or times out, or the viewport or the user
\* agent cannot be set
CreateInstanceFails(c) ==
    /\ pool_calls[c].pc = "new_page"
    /\ pool_calls' = PoolCall(c, "idle", "BrowserError")
    /\ UNCHANGED <<next_instance_id, ovars, OutsidePool>>

\* create_instance: the instance is inserted under the write lock
CreateInstanceInsert(c) ==
    /\ pool_calls[c].pc = "new_page"
    /\ next_instance_id <= MaxInstanceIds
    /\ instances' = instances \cup {next_instance_id}
    /\ next_instance_id' = next_instance_id + 1
    /\ pool_calls' = PoolCall(c, "idle", "Ok")
    /\ UNCHANGED <<agents, agent_assignments, config, max_concurrent,
                   system_metrics, total_agents_spawned, next_id, OutsidePool>>

\* remove_instance: the instance leaves the map under the write lock, then its
\* page is closed, which can fail
RemoveInstance(c) ==
    /\ pool_calls[c].pc = "idle"
    /\ \E instance_id \in InstanceIds, closeOk \in BOOLEAN :
          /\ instances' = instances \ {instance_id}
          /\ pool_calls' = PoolCall(c, "idle",
                                    IF instance_id \in instances /\ ~closeOk
                                    THEN "BrowserError" ELSE "Ok")
    /\ UNCHANGED <<agents, agent_assignments, config, max_concurrent,
                   system_metrics, total_agents_spawned, next_id, OutsidePool>>
    /\ UNCHANGED next_instance_id

PoolInit == LoopInit

PoolNext ==
    \E c \in PoolCallers :
        \/ CreateInstanceCheck(c)
        \/ CreateInstanceFails(c)
        \/ CreateInstanceInsert(c)
        \/ RemoveInstance(c)

PoolSpec == PoolInit /\ [][PoolNext]_vars

----------------------------------------------------------------------------
(* One message_stream() subscriber of the chat channel *)

\* message_stream: the receiver is subscribed and the forwarding task spawned;
\* the receiver sees the messages sent from now on
MessageStream ==
    /\ forwarder.pc = "none"
    /\ forwarder' = [pc |-> "recv", next |-> chat_sent + 1]
    /\ chat_receivers' = "waiting"
    /\ UNCHANGED <<chat_sent, stream_buffer, stream_received, OutsideStream>>

\* an agent's tick sends one chat message; messages are numbered in send order
BroadcastSend ==
    /\ chat_sent < MaxMessages
    /\ chat_sent' = chat_sent + 1
    /\ UNCHANGED <<chat_receivers, forwarder, stream_buffer, stream_received,
                   OutsideStream>>

\* the oldest message the broadcast channel still retains
OldestRetained == IF chat_sent > BroadcastCapacity
                  THEN chat_sent - BroadcastCapacity + 1 ELSE 1

\* broadcast_rx.recv() returns Err(Lagged) when the receiver's next message
\* has been overwritten
RecvLagged(next) == next < OldestRetained

\* the forwarding task: while let Ok(message) = broadcast_rx.recv().await
ForwarderRecv ==
    /\ forwarder.pc = "recv"
    /\ forwarder.next <= chat_sent
    /\ forwarder' = IF RecvLagged(forwarder.next)
                    THEN [pc |-> "ended", next |-> OldestRetained]
                    ELSE [pc |-> "send", next |-> forwarder.next]
    /\ chat_receivers' = IF RecvLagged(forwarder.next) THEN "none" ELSE chat_receivers
    /\ UNCHANGED <<chat_sent, stream_buffer, stream_received, OutsideStream>>

\* the forwarding task: tx.send(message).await, which waits for room
ForwarderSend ==
    /\ forwarder.pc = "send"
    /\ Len(stream_buffer) < StreamCapacity
    /\ stream_buffer' = Append(stream_buffer, forwarder.next)
    /\ forwarder' = [pc |-> "recv", next |-> forwarder.next + 1]
    /\ UNCHANGED <<chat_receivers, chat_sent, stream_received, OutsideStream>>

\* the consumer: message_stream.recv()
ConsumerRecv ==
    /\ stream_buffer # <<>>
    /\ stream_received' = Append(stream_received, Head(stream_buffer))
    /\ stream_buffer' = Tail(stream_buffer)
    /\ UNCHANGED <<chat_receivers, chat_sent, forwarder, OutsideStream>>

StreamInit == LoopInit

StreamNext ==
    \/ MessageStream
    \/ BroadcastSend
    \/ ForwarderRecv
    \/ ForwarderSend
    \/ ConsumerRecv

StreamSpec == StreamInit /\ [][StreamNext]_vars

----------------------------------------------------------------------------
(* stop_agent around one agent's stop(), and the agents-map lock *)

\* the agent's own steps; its stop() is called by stop_agent only
LockedAgentStep ==
    /\ AgentStep
    /\ (agent_pc = "started" /\ agent_pc' # "started") => stop_agent_pc = "agent_stop"
    /\ UNCHANGED OutsideAgent

\* stop_agent: agents.write().await and agents.remove(&agent_id); the guard
\* lives to the end of the function
StopAgentLocks ==
    /\ stop_agent_pc = "idle"
    /\ agent_pc = "started"
    /\ agents_lock = "free"
    /\ agents_lock' = "write"
    /\ stop_agent_pc' = "agent_stop"
    /\ UNCHANGED <<reader_pc, lvars, OutsideLocks>>

\* stop_agent: agent.stop().await has returned; on Ok the assignment is
\* removed and Stopped broadcast; the function returns and drops the guard
StopAgentReturns ==
    /\ stop_agent_pc = "agent_stop"
    /\ agent_pc \in {"stopped", "stop_failed"}
    /\ agents_lock' = "free"
    /\ stop_agent_pc' = "returned"
    /\ UNCHANGED <<reader_pc, lvars, OutsideLocks>>

\* the system monitor or the recovery loop asks for agents.read()
ReaderWaits ==
    /\ reader_pc = "idle"
    /\ reader_pc' = "waiting"
    /\ UNCHANGED <<agents_lock, stop_agent_pc, lvars, OutsideLocks>>

ReaderAcquires ==
    /\ reader_pc = "waiting"
    /\ agents_lock = "free"
    /\ agents_lock' = "read"
    /\ reader_pc' = "reading"
    /\ UNCHANGED <<stop_agent_pc, lvars, OutsideLocks>>

ReaderReleases ==
    /\ reader_pc = "reading"
    /\ agents_lock' = "free"
    /\ reader_pc' = "idle"
    /\ UNCHANGED <<stop_agent_pc, lvars, OutsideLocks>>

LockInit == LoopInit

LockNext ==
    \/ LockedAgentStep
    \/ StopAgentLocks
    \/ StopAgentReturns
    \/ ReaderWaits
    \/ ReaderAcquires
    \/ ReaderReleases

LockSpec == LockInit /\ [][LockNext]_vars

----------------------------------------------------------------------------
(* The RwLocks and the tasks that take them *)

\* set_status: the status guard is still alive when metrics.write() is asked for
SetStatusLocks ==
    << <<"write", "status">>, <<"touch_write", "metrics">>, <<"release", "status">> >>

OperationHandlerUnguarded(body) == body

\* an HTTP handler of an operation (&mut self) holds orchestrator.write()
OperationHandler(body) ==
    << <<"write", "orchestrator">> >> \o body \o << <<"release", "orchestrator">> >>

\* an HTTP handler of a read accessor (&self) holds orchestrator.read()
AccessorHandler(body) ==
    << <<"read", "orchestrator">> >> \o body \o << <<"release", "orchestrator">> >>

\* the lock steps of each piece of code, in program order: read and write
\* take a guard that a later release drops, touch_read and touch_write take a
\* guard that is dropped before the next await
LockCode(prog) ==
    CASE prog = "spawn_agent" ->
           OperationHandler(
             << <<"touch_read", "agents">>, <<"touch_read", "config">> >>
             \o SetStatusLocks
             \o << <<"touch_read", "pool">>, <<"touch_write", "pool">>,
                   <<"touch_read", "pool">>, <<"spawn", "agent_loop">> >>
             \o SetStatusLocks
             \o << <<"touch_write", "agents">>, <<"touch_write", "assignments">> >>)
      [] prog = "stop_agent" ->
           OperationHandler(
             << <<"write", "agents">> >>
             \o SetStatusLocks
             \o << <<"signal", "agent_loop">>, <<"join", "agent_loop">>,
                   <<"touch_write", "pool">> >>
             \o SetStatusLocks
             \o << <<"touch_write", "assignments">>, <<"release", "agents">> >>)
      [] prog = "stop_agent_unknown" ->
           OperationHandler(<< <<"touch_write", "agents">> >>)
      [] prog = "get_status" ->
           AccessorHandler(
             << <<"read", "agents">>, <<"read", "assignments">>,
                <<"touch_read", "assignments">>, <<"touch_read", "agents">>,
                <<"release", "assignments">>, <<"release", "agents">> >>)
      [] prog = "get_agent_status" ->
           AccessorHandler(
             << <<"read", "agents">>, <<"touch_read", "status">>,
                <<"release", "agents">> >>)
      [] prog = "get_agent_metrics" ->
           AccessorHandler(
             << <<"read", "agents">>, <<"touch_write", "metrics">>,
                <<"touch_read", "metrics">>, <<"release", "agents">> >>)
      [] prog = "system_monitoring_tick" ->
           << <<"touch_read", "agents">>, <<"read", "agents">>,
              <<"touch_write", "metrics">>, <<"touch_read", "metrics">>,
              <<"release", "agents">> >>
      [] prog = "dynamic_scaling_tick" ->
           << <<"touch_read", "config">>, <<"touch_read", "agents">> >>
      [] prog = "config_received" ->
           << <<"touch_write", "config">> >>
      [] prog = "recovery_tick" ->
           << <<"read", "agents">>, <<"touch_read", "status">>, <<"release", "agents">> >>
      [] prog = "tick" ->
           << <<"touch_read", "pool">>, <<"touch_write", "metrics">> >>
      [] prog = "tick_error" ->
           << <<"touch_read", "pool">>, <<"touch_write", "metrics">>,
              <<"touch_write", "status">> >>

\* what each task can run
UserPrograms(p) ==
    CASE p = "operation"      -> {"spawn_agent", "stop_agent", "stop_agent_unknown"}
      [] p = "accessor"       -> {"get_status", "get_agent_status", "get_agent_metrics"}
      [] p = "system_monitor" -> {"system_monitoring_tick"}
      [] p = "scaler"         -> {"dynamic_scaling_tick"}
      [] p = "config_watcher" -> {"config_received"}
      [] p = "recovery"       -> {"recovery_tick"}
      [] p = "agent_loop"     -> {"tick", "tick_error"}

\* the code of every piece, by name
LockProgram == [prog \in UNION { UserPrograms(p) : p \in LockUsers } |-> LockCode(prog)]

\* the pieces of code a task can be running: the one it is in, or, from its
\* rest (the loops' select!, a caller between two calls), any it can start;
\* spawn_agent needs the agent absent and stop_agent finds it registered or not
Running(p) ==
    IF lock_tasks[p].prog = "idle"
    THEN { [prog |-> prog, pc |-> 1] : prog \in
             { c \in UserPrograms(p) :
                 /\ c = "spawn_agent" => lock_tasks["agent_loop"].prog = "none"
                 /\ c = "stop_agent" => lock_tasks["agent_loop"].prog # "none"
                 /\ c = "stop_agent_unknown" => lock_tasks["agent_loop"].prog = "none" } }
    ELSE IF lock_tasks[p].prog \in {"none", "exited"} THEN {}
    ELSE { lock_tasks[p] }

\* the instruction a task is at
Instruction(t) == LockProgram[t.prog][t.pc]

\* the task after its instruction: the next one, or the end of the code; the
\* monitoring loop ends after it has written Error
Advanced(t) ==
    IF t.pc < Len(LockProgram[t.prog])
    THEN [t EXCEPT !.pc = @ + 1]
    ELSE [prog |-> IF t.prog = "tick_error" THEN "exited" ELSE "idle", pc |-> 1]

Queued(p, l) == \E i \in 1..Len(lock_queue[l]) : lock_queue[l][i] = p

\* tokio's RwLock: readers share, a writer is alone, and waiters are served in
\* the order they asked, so a reader that comes after a waiting writer waits
Grantable(p, kind, l) ==
    /\ lock_queue[l] = <<>> \/ Head(lock_queue[l]) = p
    /\ IF kind \in {"read", "touch_read"}
       THEN \A h \in lock_holders[l] : h[2] = "read"
       ELSE lock_holders[l] = {}

\* the monitoring loop's select! takes the shutdown branch and the task ends
LockLoopShutdown ==
    /\ lock_tasks["agent_loop"].prog = "idle"
    /\ lock_shutdown
    /\ lock_shutdown' = FALSE
    /\ lock_tasks' = [lock_tasks EXCEPT !["agent_loop"] = [prog |-> "exited", pc |-> 1]]
    /\ UNCHANGED <<lock_holders, lock_queue>>
    /\ UNCHANGED OutsideDeadlock

\* a task asks for a lock and gets it, or joins the waiters
LockAcquire(p) ==
    /\ \E t \in Running(p) :
         LET kind == Instruction(t)[1]
             l == Instruction(t)[2]
         IN  /\ kind \in {"read", "write", "touch_read", "touch_write"}
             /\ IF Grantable(p, kind, l)
                THEN /\ lock_queue' = [lock_queue EXCEPT
                                         ![l] = IF @ = <<>> THEN @ ELSE Tail(@)]
                     /\ lock_holders' = [lock_holders EXCEPT
                                           ![l] = IF kind \in {"read", "write"}
                                                  THEN @ \cup {<<p, kind>>} ELSE @]
                     /\ lock_tasks' = [lock_tasks EXCEPT ![p] = Advanced(t)]
                ELSE /\ ~Queued(p, l)
                     /\ lock_queue' = [lock_queue EXCEPT ![l] = Append(@, p)]
                     /\ lock_tasks' = [lock_tasks EXCEPT ![p] = t]
                     /\ UNCHANGED lock_holders
    /\ UNCHANGED lock_shutdown
    /\ UNCHANGED OutsideDeadlock

\* a guard is dropped
LockRelease(p) ==
    /\ \E t \in Running(p) :
         /\ Instruction(t)[1] = "release"
         /\ lock_holders' = [lock_holders EXCEPT
                               ![Instruction(t)[2]] = { h \in @ : h[1] # p }]
         /\ lock_tasks' = [lock_tasks EXCEPT ![p] = Advanced(t)]
    /\ UNCHANGED <<lock_queue, lock_shutdown>>
    /\ UNCHANGED OutsideDeadlock

\* start_message_monitoring spawns the loop; stop_message_monitoring sends the
\* shutdown signal (lost when the loop has ended) and awaits the task
LockAgentLoop(p) ==
    /\ \E t \in Running(p) :
         LET kind == Instruction(t)[1]
             loop == lock_tasks["agent_loop"].prog
         IN  /\ kind \in {"spawn", "signal", "join"}
             /\ kind = "join" => loop = "exited"
             /\ lock_shutdown' = IF kind = "signal" THEN loop # "exited" ELSE FALSE
             /\ lock_tasks' = [lock_tasks EXCEPT
                                 ![p] = Advanced(t),
                                 !["agent_loop"] =
                                     CASE kind = "spawn" -> [prog |-> "idle", pc |-> 1]
                                       [] kind = "join"  -> [prog |-> "none", pc |-> 1]
                                       [] OTHER          -> @]
    /\ UNCHANGED <<lock_holders, lock_queue>>
    /\ UNCHANGED OutsideDeadlock

\* a step of a task that is inside a piece of code
LockUserStep(p) ==
    /\ lock_tasks[p].prog # "idle"
    /\ LockAcquire(p) \/ LockRelease(p) \/ LockAgentLoop(p)

DeadlockInit == LoopInit

DeadlockNext ==
    \/ \E p \in LockUsers : LockAcquire(p)
    \/ \E p \in LockUsers : LockRelease(p)
    \/ \E p \in LockUsers : LockAgentLoop(p)
    \/ LockLoopShutdown

\* every task's code runs on, and select!, which picks at random among its
\* ready branches, does not pass over a waiting shutdown signal for ever
DeadlockFairness ==
    /\ \A p \in LockUsers : WF_dvars(LockUserStep(p))
    /\ SF_dvars(LockLoopShutdown)

DeadlockSpec == DeadlockInit /\ [][DeadlockNext]_vars /\ DeadlockFairness

----------------------------------------------------------------------------
(* Properties of the orchestrator *)

\* the state a second operation starts in, right after one that left st
Again(st) == [st EXCEPT !.sent = <<>>, !.spawns = 0, !.failed = 0, !.stops = 0]

AgentCount == Cardinality(DOMAIN agents)

Min(a, b) == IF a < b THEN a ELSE b

\* C1: the agents map never holds more than max_concurrent entries, and a
\* spawn_agent call made while it holds max_concurrent entries returns
\* ResourceLimit and leaves the agents map, the assignments map and
\* total_agents_spawned as they were.
C1_SpawnCeiling ==
    /\ AgentCount <= max_concurrent
    /\ \A streamer \in Streamers, priority \in ApiPriorities :
         \A r \in SpawnResults(OpState, streamer, priority) :
            AgentCount >= max_concurrent =>
               /\ r.res = "ResourceLimit"
               /\ r.st.agents = agents
               /\ r.st.assignments = agent_assignments
               /\ r.st.total = total_agents_spawned

C1_Witness ==
    /\ AgentCount = max_concurrent
    /\ total_agents_spawned >= max_concurrent
    /\ \A r \in SpawnResults(OpState, "a", 0) : r.res = "ResourceLimit"

\* C2 (as claimed): no two entries of the assignments map have the same streamer.
C2_OneAssignmentPerStreamer ==
    \A i, j \in DOMAIN agent_assignments :
        agent_assignments[i].streamer = agent_assignments[j].streamer => i = j

\* C3 (as claimed): between operations every key of the assignments map is a key
\* of the agents map.
C3_AssignmentHasAgent == DOMAIN agent_assignments \subseteq DOMAIN agents

\* C4 (as claimed): once the stored configuration's max_concurrent differs from
\* the value the orchestrator was constructed with, spawn_agent succeeds only
\* below the stored ceiling and returns ResourceLimit at or above it.
C4_StoredCeiling ==
    config.max_concurrent # max_concurrent =>
        \A streamer \in Streamers, priority \in ApiPriorities :
          \A r \in SpawnResults(OpState, streamer, priority) :
            /\ r.res = "Ok" => AgentCount < config.max_concurrent
            /\ AgentCount >= config.max_concurrent => r.res = "ResourceLimit"

\* a second distribute_agents call right after r1 attempted no spawn, stopped
\* no agent and left both maps as r1 left them
SecondCallIdle(r1) ==
    \A r2 \in distribute_agents(Again(r1.st), config) :
        /\ r2.st.spawns = 0
        /\ r2.st.stops = 0
        /\ r2.st.agents = r1.st.agents
        /\ r2.st.assignments = r1.st.assignments

AssignedTo(assignments, streamer) ==
    { id \in DOMAIN assignments : assignments[id].streamer = streamer }

\* C6 (as claimed): when restart_agent(id) returns Ok for an assignment with
\* streamer s, priority p and retry_attempts r, the assignments map then holds
\* exactly one entry for s, under a new id different from id, with agent_id
\* that new id, streamer s, priority p, retry_attempts r + 1 and last_failure
\* set; the old id is in neither map.
C6_RestartRekeys ==
    \A agent_id \in DOMAIN agent_assignments, closeOk \in BOOLEAN,
       outcome \in StartOutcomes :
        LET old == agent_assignments[agent_id]
            r == restart_agent(OpState, agent_id, closeOk, outcome)
            now == AssignedTo(r.st.assignments, old.streamer)
        IN  r.res = "Ok" =>
              /\ Cardinality(now) = 1
              /\ \A new_agent_id \in now :
                    /\ new_agent_id # agent_id
                    /\ r.st.assignments[new_agent_id] =
                          [agent_id |-> new_agent_id, streamer |-> old.streamer,
                           priority |-> old.priority,
                           retry_attempts |-> old.retry_attempts + 1,
                           last_failure |-> TRUE]
              /\ agent_id \notin DOMAIN r.st.agents
              /\ agent_id \notin DOMAIN r.st.assignments

\* C7: stop_agent(id) with an id that is not in the agents map returns Ok,
\* changes neither map nor any agent's status and sends no StatusUpdate; a
\* second stop_agent(id) right after a first one, whatever the first did,
\* returns Ok and leaves the state the first one left, sending nothing.
C7_StopUnknownIsNoOp ==
    \A agent_id \in AgentIds :
        /\ agent_id \notin DOMAIN agents =>
              \A r \in StopResults(OpState, agent_id) :
                  r = [st |-> OpState, res |-> "Ok"]
        /\ \A r1 \in StopResults(OpState, agent_id) :
              \A r2 \in StopResults(Again(r1.st), agent_id) :
                  r2 = [st |-> Again(r1.st), res |-> "Ok"]

C7_Witness ==
    \E agent_id \in AgentIds, other \in DOMAIN agents :
        /\ agent_id < next_id
        /\ agent_id \notin DOMAIN agents
        /\ agent_id \in DOMAIN agent_assignments
        /\ agents[other].status = "Error"

\* C8: from an orchestrator with no agents and no assignments, whose ceiling m
\* is the configured one, and a configured list of n distinct streamers,
\* distribute_agents with every agent start succeeding returns Ok and leaves
\* exactly min(m, n) agents, one for each of the first min(m, n) streamers of
\* the list, the one at index i with priority i, and none for a later streamer.
C8_DistributeFromEmpty ==
    (/\ agents = EmptyMap
     /\ agent_assignments = EmptyMap
     /\ config.max_concurrent = max_concurrent) =>
        \A r \in distribute_agents(OpState, config) :
            r.st.failed = 0 =>
              LET k == Min(max_concurrent, Len(config.streamers))
              IN  /\ r.res = "Ok"
                  /\ Cardinality(DOMAIN r.st.agents) = k
                  /\ DOMAIN r.st.assignments = DOMAIN r.st.agents
                  /\ \A i \in 1..Len(config.streamers) :
                        LET now == AssignedTo(r.st.assignments, config.streamers[i])
                        IN  IF i <= k
                            THEN /\ Cardinality(now) = 1
                                 /\ \A id \in now :
                                       r.st.assignments[id].priority = i - 1
                            ELSE now = {}

\* the state distribute_agents leaves from the empty orchestrator with m = n = 2
C8_Witness ==
    /\ max_concurrent = 2
    /\ config = [streamers |-> <<"a", "b">>, max_concurrent |-> 2]
    /\ DOMAIN agents = {1, 2}
    /\ agent_assignments = (1 :> NewAssignment(1, "a", 0)) @@ (2 :> NewAssignment(2, "b", 1))
    /\ total_agents_spawned = 2
    /\ next_id = 3

\* C9 (as claimed): when the stored metrics show CPU above 85% or memory above
\* 85% and more than one agent is registered, scale_agents stops exactly one
\* agent, whose assignment has the highest priority value of all assignments,
\* and every other agent and assignment is unchanged.
C9_ScaleDownStopsLowestPriority ==
    (HighUsage(system_metrics) /\ AgentCount > 1) =>
        \A r \in scale_agents(OpState, system_metrics, config) :
            \E agent_id \in DOMAIN agents :
                /\ r.st.agents = Remove(agents, agent_id)
                /\ agent_id \in DOMAIN agent_assignments
                /\ \A other \in DOMAIN agent_assignments :
                      agent_assignments[other].priority
                          <= agent_assignments[agent_id].priority
                /\ DOMAIN r.st.assignments \subseteq DOMAIN agent_assignments
                /\ \A other \in DOMAIN agent_assignments \ {agent_id} :
                      /\ other \in DOMAIN r.st.assignments
                      /\ r.st.assignments[other] = agent_assignments[other]

\* C12: update_config(new_config) stores new_config whatever else happens;
\* with the stored streamer list unchanged it returns Ok having attempted no
\* spawn and no stop, both maps as they were, also when max_concurrent
\* differs; with a different list it does what distribute_agents does under
\* new_config.
C12_UpdateConfigRedistributes ==
    \A new_config \in Configs :
        \A r \in update_config(OpState, config, new_config) :
            /\ r.config = new_config
            /\ new_config.streamers = config.streamers =>
                  /\ r.res = "Ok"
                  /\ r.st = OpState
            /\ new_config.streamers # config.streamers =>
                  \E d \in distribute_agents(OpState, new_config) :
                      d.st = r.st /\ d.res = r.res

\* one agent short of a list of two, and a new configuration that only changes
\* the ceiling: distribute_agents would spawn, update_config does not
C12_Witness ==
    /\ config = [streamers |-> <<"a", "b">>, max_concurrent |-> 1]
    /\ max_concurrent = 2
    /\ AgentCount = 1
    /\ \E d \in distribute_agents(OpState, [config EXCEPT !.max_concurrent = 2]) :
          d.st.spawns = 1
    /\ \A r \in update_config(OpState, config, [config EXCEPT !.max_concurrent = 2]) :
          r.st.spawns = 0

\* C13: a spawn_agent call that returns an error (the start failed or timed
\* out) leaves the agents map, the assignments map and total_agents_spawned as
\* they were; one that returns Ok(id) adds exactly the entry id to each map,
\* the assignment being (id, streamer, priority, retry_attempts 0), and adds 1
\* to total_agents_spawned.
C13_SpawnRegistersOnSuccess ==
    \A streamer \in Streamers, priority \in 0..1 :
        \A r \in SpawnResults(OpState, streamer, priority) :
            IF r.res = "Ok"
            THEN /\ r.id \notin DOMAIN agents \cup DOMAIN agent_assignments
                 /\ DOMAIN r.st.agents = DOMAIN agents \cup {r.id}
                 /\ \A id \in DOMAIN agents : r.st.agents[id] = agents[id]
                 /\ DOMAIN r.st.assignments = DOMAIN agent_assignments \cup {r.id}
                 /\ \A id \in DOMAIN agent_assignments :
                       r.st.assignments[id] = agent_assignments[id]
                 /\ r.st.assignments[r.id] =
                       [agent_id |-> r.id, streamer |-> streamer, priority |-> priority,
                        retry_attempts |-> 0, last_failure |-> FALSE]
                 /\ r.st.total = total_agents_spawned + 1
            ELSE /\ r.st.agents = agents
                 /\ r.st.assignments = agent_assignments
                 /\ r.st.total = total_agents_spawned

\* one spawn has succeeded and one has failed after its instance was created
C13_Witness ==
    /\ AgentCount = 1
    /\ total_agents_spawned = 1
    /\ \E id \in instances : id \notin DOMAIN agents \cup DOMAIN agent_assignments
    /\ \E id \in DOMAIN agents : agent_assignments[id] = NewAssignment(id, "b", 0)

----------------------------------------------------------------------------
(* Properties of the monitoring loop *)

\* C10: a tick that fails with a non-browser error (the ticks that count in
\* error_count) and is the 10th consecutive failure sets the status to
\* Error("Too many consecutive errors") and ends the task; one that is an
\* earlier consecutive failure leaves the status as it was and sends the task
\* into its backoff; a task that has exited stays exited (no further poll).
C10_TooManyConsecutiveErrors ==
    [][ /\ metrics'.error_count = metrics.error_count + 1 =>
              IF consecutive_errors' >= MAX_CONSECUTIVE_ERRORS
              THEN /\ consecutive_errors' = MAX_CONSECUTIVE_ERRORS
                   /\ status' = Status("Error", "Too many consecutive errors")
                   /\ monitoring_task' = "exited"
              ELSE /\ status' = status
                   /\ monitoring_task' = "backoff"
        /\ monitoring_task = "exited" => monitoring_task' = "exited"
      ]_vars

C10_Witness ==
    /\ monitoring_task = "exited"
    /\ consecutive_errors = MAX_CONSECUTIVE_ERRORS
    /\ metrics.error_count >= MAX_CONSECUTIVE_ERRORS
    /\ status = Status("Error", "Too many consecutive errors")

\* C11: a tick whose fetched page is the page fetched on the tick before it
\* (whatever that tick made of it) returns Ok(0), sends no message, does not
\* call the parser and leaves messages_scraped and last_message_time alone.
C11_UnchangedHtmlSkipped ==
    \A html \in Payloads :
        LET first == Extracted(html)
            second == extract_and_process_messages(first.last_html_hash,
                                                   first.metrics, TRUE, html,
                                                   chat_receivers)
        IN  /\ second.res = "Ok"
            /\ second.message_count = 0
            /\ second.published = 0
            /\ ~second.parser_called
            /\ second.metrics.messages_scraped = first.metrics.messages_scraped
            /\ second.metrics.last_message_time = first.metrics.last_message_time

\* the task is fetching again after a tick that published the message of page 2
C11_Witness ==
    /\ monitoring_task = "get_chat_html"
    /\ last_html_hash = md5_hex(2)
    /\ metrics.messages_scraped = 1
    /\ metrics.last_message_time = 1
    /\ ~Extracted(2).parser_called

\* the edges of the agent's state machine
StatusEdges ==
    { <<"Idle", "Starting">>, <<"Starting", "Running">>, <<"Starting", "Error">>,
      <<"Running", "Error">>, <<"Running", "Stopping">>, <<"Error", "Stopping">>,
      <<"Stopping", "Stopped">> }

\* C14 (as claimed): every change of the agent's status follows one of the
\* edges Idle->Starting, Starting->Running, Starting->Error, Running->Error,
\* Running->Stopping, Error->Stopping, Stopping->Stopped, under any
\* interleaving of start(), stop() and the monitoring task.
C14_StatusFollowsEdges ==
    [][status'.state # status.state =>
          <<status.state, status'.state>> \in StatusEdges]_vars

\* C15: when start() has returned an error (browser acquisition or navigation
\* failed, or the agent has no browser manager), the status and its copy in
\* the metrics are Error(reason), no monitoring task was spawned, and after a
\* failed navigation the instance acquired before it is still in the pool and
\* referenced by the agent.
C15_StartFailureLeavesError ==
    agent_pc = "start_failed" =>
        /\ status.state = "Error"
        /\ status.reason # ""
        /\ metrics.status = status
        /\ monitoring_task = "none"
        /\ ~shutdown_signal
        /\ status.reason = "Navigation failed" =>
              (browser_instance /\ browser_instance_id)
        /\ status.reason # "Navigation failed" =>
              (~browser_instance /\ ~browser_instance_id)

C15_Witness ==
    /\ agent_pc = "start_failed"
    /\ status = Status("Error", "Navigation failed")
    /\ browser_instance
    /\ browser_instance_id

\* C16: stop() writes Stopping and only then sends the shutdown signal; it
\* reaches cleanup_browser, and returns, only with the monitoring task exited;
\* Stopped is written by the step that takes the instance out of the pool;
\* and when stop() has returned Ok the status is Stopped, the task has exited
\* and the instance is in the pool no more.
C16_StopInOrder ==
    /\ [](/\ agent_pc \in {"cleanup_browser", "stopped", "stop_failed"} =>
                monitoring_task = "exited"
          /\ agent_pc = "stopped" =>
                /\ status = Status("Stopped", "")
                /\ metrics.status = status
                /\ ~browser_instance
                /\ ~browser_instance_id)
    /\ [][/\ (agent_pc' = "send_shutdown" /\ agent_pc # "send_shutdown") =>
                (status' = Status("Stopping", "") /\ ~shutdown_signal')
          /\ (shutdown_signal' /\ ~shutdown_signal) =>
                (agent_pc = "send_shutdown" /\ agent_pc' = "join")
          /\ (status'.state = "Stopped" /\ status.state # "Stopped") =>
                /\ agent_pc = "cleanup_browser"
                /\ monitoring_task = "exited"
                /\ ~browser_instance'
         ]_vars

\* stop() has returned Ok on an agent whose task had published a message
C16_Witness ==
    /\ agent_pc = "stopped"
    /\ status = Status("Stopped", "")
    /\ monitoring_task = "exited"
    /\ metrics.messages_scraped = 1

\* stop() has been called and has not returned
Stopping == agent_pc \in {"send_shutdown", "join", "cleanup_browser"}

\* C17: under fair scheduling a stop() call on a started agent returns,
\* wherever the monitoring task is when it is called.
C17_StopReturns == Stopping ~> agent_pc \in {"stopped", "stop_failed"}

\* stop() waits for a task that is in its error backoff
C17_Witness ==
    /\ agent_pc = "join"
    /\ shutdown_signal
    /\ monitoring_task = "backoff"

\* C24: a scale_agents call changes the number of registered agents by at
\* most one; it removes an agent only if CPU > 85% or memory > 85% and more
\* than one agent is registered; otherwise it adds at most one agent, only if
\* CPU < 60%, memory < 70%, fewer agents than the configured max_concurrent
\* are registered and a configured streamer has no assignment, and then for
\* the first such streamer with its index as priority; in every other case
\* it changes nothing.
C24_ScaleByAtMostOne ==
    \A r \in scale_agents(OpState, system_metrics, config) :
        LET before == Cardinality(DOMAIN agents)
            after == Cardinality(DOMAIN r.st.agents)
            memory_percent_above(n) ==
                system_metrics.memory_usage * 100 > n * system_metrics.memory_total
            memory_percent_below(n) ==
                system_metrics.memory_usage * 100 < n * system_metrics.memory_total
            down == (system_metrics.cpu_usage > 85 \/ memory_percent_above(85))
                       /\ before > 1
            free == { i \in 1..Len(config.streamers) :
                        \A id \in DOMAIN agent_assignments :
                            agent_assignments[id].streamer # config.streamers[i] }
            up == /\ ~down
                  /\ system_metrics.cpu_usage < 60
                  /\ memory_percent_below(70)
                  /\ before < config.max_concurrent
                  /\ free # {}
        IN  /\ after \in {before - 1, before, before + 1}
            /\ after < before => down /\ DOMAIN r.st.agents \subseteq DOMAIN agents
            /\ after > before =>
                  /\ up
                  /\ \E id \in DOMAIN r.st.agents \ DOMAIN agents, i \in free :
                        /\ \A j \in free : i <= j
                        /\ r.st.assignments[id].streamer = config.streamers[i]
                        /\ r.st.assignments[id].priority = i - 1
            /\ (~down /\ ~up) => r.st = OpState

\* the only registered agent under 90% CPU: scale_agents leaves it alone
C24_Witness ==
    /\ system_metrics.cpu_usage = 90
    /\ Cardinality(DOMAIN agents) = 1
    /\ scale_agents(OpState, system_metrics, config) = {[st |-> OpState, res |-> "Ok"]}

\* C25: rebalance_agents calls restart_agent for exactly the registered
\* agents whose snapshot has at least one whole second of uptime and
\* 10 * error_count > uptime_secs; the old agent of each is gone afterwards,
\* every other agent and assignment is as before, and the result is Ok
\* whatever the restarts returned.
C25_RebalanceRestartsHighErrorRate ==
    \A performance_metrics \in [DOMAIN agents -> MetricsSnapshots] :
        \A r \in rebalance_agents(OpState, performance_metrics) :
            LET hot == { id \in DOMAIN agents :
                           /\ performance_metrics[id].uptime_secs >= 1
                           /\ 10 * performance_metrics[id].error_count
                                 > performance_metrics[id].uptime_secs }
            IN  /\ r.res = "Ok"
                /\ r.restarted = hot
                /\ \A id \in hot : id \notin DOMAIN r.st.agents
                /\ \A id \in DOMAIN agents \ hot :
                      id \in DOMAIN r.st.agents /\ r.st.agents[id] = agents[id]
                /\ \A id \in DOMAIN agent_assignments \ hot :
                      /\ id \in DOMAIN r.st.assignments
                      /\ r.st.assignments[id] = agent_assignments[id]

\* of two registered agents the one with one error in nine seconds is
\* replaced, the one with one error in ten seconds is kept
C25_Witness ==
    /\ DOMAIN agents = {1, 2}
    /\ LET performance_metrics == (1 :> [error_count |-> 1, uptime_secs |-> 9])
                                   @@ (2 :> [error_count |-> 1, uptime_secs |-> 10])
       IN  \E r \in rebalance_agents(OpState, performance_metrics) :
              /\ r.restarted = {1}
              /\ DOMAIN r.st.agents = {2, 3}

\* C27 (as claimed): when distribute_agents returns Ok, no assignment is left
\* for a streamer that is absent from the stored configuration's list.
C27_NoAssignmentForRemovedStreamer ==
    \A r \in distribute_agents(OpState, config) :
        r.res = "Ok" =>
            \A id \in DOMAIN r.st.assignments :
                \E i \in 1..Len(config.streamers) :
                    config.streamers[i] = r.st.assignments[id].streamer

\* C28 (as claimed): restart_agent never leaves the old agent registered
\* beside its replacement, never leaves more agents registered than the
\* ceiling, and a restart issued while the orchestrator is at capacity does
\* not fail with ResourceLimit.
C28_RestartStopsBeforeSpawn ==
    \A agent_id \in DOMAIN agent_assignments, closeOk \in BOOLEAN,
       outcome \in StartOutcomes :
        LET r == restart_agent(OpState, agent_id, closeOk, outcome)
        IN  /\ agent_id \notin DOMAIN r.st.agents
            /\ Cardinality(DOMAIN r.st.agents) <= max_concurrent
            /\ Cardinality(DOMAIN agents) >= max_concurrent
                  => r.res # "ResourceLimit"

\* C21: restart_agent(id) for an id without an entry in the assignments map
\* returns an AgentError and leaves the agents map, the assignments map and
\* total_agents_spawned as they were.
C21_RestartUnknownIsAgentError ==
    \A agent_id \in AgentIds \ DOMAIN agent_assignments, closeOk \in BOOLEAN,
       outcome \in StartOutcomes :
        LET r == restart_agent(OpState, agent_id, closeOk, outcome)
        IN  /\ r.res = "AgentError"
            /\ r.st.agents = agents
            /\ r.st.assignments = agent_assignments
            /\ r.st.total = total_agents_spawned

\* an agent is registered and the id of an agent stopped earlier has no assignment
C21_Witness ==
    /\ agents # EmptyMap
    /\ \E agent_id \in AgentIds :
          /\ agent_id < next_id
          /\ agent_id \notin DOMAIN agent_assignments
          /\ agent_id \notin DOMAIN agents
          /\ restart_agent(OpState, agent_id, TRUE, "ok").res = "AgentError"

\* C23: a tick that publishes messages while the chat channel has no
\* subscriber returns the parsed message count, adds it to messages_scraped,
\* leaves error_count, the consecutive-error counter and the status alone;
\* whatever the subscribers' state, the tick's result is the same.
C23_PublishWithoutSubscribers ==
    /\ [](\A html \in Payloads, receivers \in ReceiverStates :
            LET parsed == parse_chat_html(html)
                tick == extract_and_process_messages(last_html_hash, metrics, TRUE,
                                                     html, receivers)
            IN  (tick.parser_called /\ parsed.ok) =>
                   /\ tick.res = "Ok"
                   /\ tick.message_count = parsed.messages
                   /\ tick.published = parsed.messages
                   /\ tick.metrics.messages_scraped
                         = metrics.messages_scraped + parsed.messages
                   /\ tick.metrics.error_count = metrics.error_count)
    /\ [][(monitoring_task = "get_chat_html" /\ monitoring_task' = "select")
            => /\ status' = status
               /\ consecutive_errors' = 0
               /\ metrics'.error_count = metrics.error_count]_vars

\* a running agent has published two messages to a channel without subscriber
C23_Witness ==
    /\ chat_receivers = "none"
    /\ monitoring_task = "select"
    /\ metrics.messages_scraped = 2
    /\ metrics.error_count = 0
    /\ consecutive_errors = 0
    /\ status = Status("Running", "")

\* C29: a tick whose fetch fails with a BrowserError, or which finds the
\* agent's browser instance gone from the pool, sets the status to Error and
\* ends the task in that tick, without backoff and without counting the
\* error, whatever the consecutive-error counter holds; a task that has
\* exited polls no more.
C29_BrowserErrorExitsAtOnce ==
    /\ [](LET arm == ExtractErrorArm("BrowserError", consecutive_errors + 1)
          IN  /\ arm.task = "exited"
              /\ arm.reason = "Browser error"
              /\ ~arm.counted)
    /\ [][ /\ (/\ monitoring_task = "get_chat_html"
               /\ consecutive_errors' = consecutive_errors + 1
               /\ metrics'.error_count = metrics.error_count)
                => /\ status' = Status("Error", "Browser error")
                   /\ monitoring_task' = "exited"
           /\ (/\ monitoring_task = "select"
               /\ monitoring_task' # "select"
               /\ ~browser_instance
               /\ ~ShutdownReceived)
                => /\ status' = Status("Error", "Browser instance not found")
                   /\ monitoring_task' = "exited"
                   /\ metrics' = metrics
           /\ monitoring_task = "exited" => monitoring_task' = "exited"
         ]_vars

\* the task ended on a BrowserError that followed one counted failure
C29_Witness ==
    /\ monitoring_task = "exited"
    /\ status = Status("Error", "Browser error")
    /\ consecutive_errors = 2
    /\ metrics.error_count = 1

\* C19: once a registered agent has entered Error(reason), get_agent_status
\* and the status field of get_agent_metrics both report Error(reason) until
\* the agent is stopped or restarted.
C19_ErrorStaysReported ==
    (agent_pc = "started" /\ status.state = "Error")
        => /\ get_status = status
           /\ get_metrics.status = status

----------------------------------------------------------------------------
(* Properties of the orchestrator's lifecycle *)

StopCalled == orchestrator_pc \in {"stop_agents", "await_tasks"}

\* C18: under fair scheduling stop() eventually returns Ok; when it returns
\* every background loop that was spawned has exited and the agents map is
\* empty, also when stopping one of the agents failed.
C18_StopReturnsOk ==
    /\ StopCalled ~> orchestrator_pc = "stopped"
    /\ [][(orchestrator_pc # "stopped" /\ orchestrator_pc' = "stopped")
            => /\ agents' = EmptyMap
               /\ \A t \in BackgroundTasks :
                      background_tasks'[t] \in {"none", "exited"}]_vars

\* stop() has returned after two agents were stopped, one of them with an error
C18_Witness ==
    /\ orchestrator_pc = "stopped"
    /\ total_agents_spawned = 2
    /\ agents = EmptyMap
    /\ Cardinality(DOMAIN agent_assignments) = 1
    /\ \A t \in BackgroundTasks : background_tasks[t] = "exited"

RecoveryRunning == background_tasks["agent_recovery"] \in {"select", "listed"}

\* C20: under fair scheduling a registered agent whose status is Error, and
\* which stays registered, is eventually in the list the recovery loop builds
\* for restart; each tick of the loop lists every agent that is in Error
\* when it scans.
C20_ErrorEventuallyListed ==
    /\ \A agent_id \in AgentIds :
          (/\ RecoveryRunning
           /\ agent_id \in DOMAIN agents
           /\ agents[agent_id].status = "Error")
             ~> (agent_id \in agents_to_restart \/ agent_id \notin DOMAIN agents)
    /\ [][(background_tasks["agent_recovery"] = "select"
             /\ background_tasks'["agent_recovery"] = "listed")
            => \A agent_id \in DOMAIN agents :
                  agents[agent_id].status = "Error" => agent_id \in agents_to_restart']_vars

\* the recovery loop has listed one of two registered agents, the one in Error
C20_Witness ==
    /\ background_tasks["agent_recovery"] = "listed"
    /\ Cardinality(DOMAIN agents) = 2
    /\ Cardinality(agents_to_restart) = 1
    /\ \A agent_id \in agents_to_restart :
          agent_id \in DOMAIN agents /\ agents[agent_id].status = "Error"

----------------------------------------------------------------------------
(* Properties of the browser pool *)

\* C22: under any interleaving of concurrent create_instance and
\* remove_instance calls the number of registered instances never exceeds
\* max_instances.
C22_PoolNeverExceedsMax == Cardinality(instances) <= PoolMax

----------------------------------------------------------------------------
(* Properties of the message stream *)

\* C26: a message_stream() subscriber receives the chat messages in send
\* order, and after an overflow of its buffer it keeps receiving: the stream
\* does not end while the broadcaster and the consumer are alive.
C26_StreamSurvivesOverflow ==
    /\ \A i, j \in 1..Len(stream_received) :
          i < j => stream_received[i] < stream_received[j]
    /\ forwarder.pc # "ended"

----------------------------------------------------------------------------
(* Properties of the locks *)

\* C30: the agents-map lock is not held while a per-agent stop is awaited: in
\* stop_agent it is released before agent.stop() is awaited.
C30_NoLockAcrossAgentStop ==
    (stop_agent_pc = "agent_stop" /\ agent_pc \notin {"stopped", "stop_failed"})
        => agents_lock # "write"

----------------------------------------------------------------------------
(* Properties of the background loops *)

BackgroundLoopStep ==
    \/ DynamicScalerTick
    \/ DynamicScalerAlerts
    \/ ConfigWatcherStores
    \/ ConfigWatcherEnds
    \/ RecoveryScan
    \/ RecoveryLogged

SameAgents(st) ==
    /\ st.agents = agents
    /\ st.assignments = agent_assignments
    /\ st.instances = instances
    /\ st.next_id = next_id
    /\ st.total = total_agents_spawned

----------------------------------------------------------------------------
(* Properties of the backoff *)

\* a tick has failed with an error that is not a BrowserError and the task
\* sleeps before its next poll
InBackoff == monitoring_task = "backoff"

----------------------------------------------------------------------------
(* Properties of the pool as the orchestrator uses it *)

\* C33: between two orchestrator operations the pool holds as many instances
\* as the agents map holds agents, each registered agent referencing an
\* instance of its own that is registered: no spawn_agent that failed or timed
\* out, and no stop_agent, leaves an instance behind.
C33_PoolMatchesAgents ==
    /\ Cardinality(instances) = Cardinality(DOMAIN agents)
    /\ DOMAIN agents \subseteq instances

----------------------------------------------------------------------------
(* Properties of start() against the monitoring task *)

\* C34: whenever the agent's status is Running its monitoring task has not
\* exited: the Running that start() writes after spawning the task never
\* overwrites an Error the task has already written.
C34_RunningHasLiveTask ==
    status.state = "Running" => monitoring_task # "exited"

----------------------------------------------------------------------------
(* Properties of the RwLocks *)

\* the task has asked for a lock, or for the monitoring task's end, and waits
LockWaiting(p) ==
    /\ lock_tasks[p].prog \notin {"idle", "none", "exited"}
    /\ IF Instruction(lock_tasks[p])[1] = "join"
       THEN lock_tasks["agent_loop"].prog # "exited"
       ELSE /\ Instruction(lock_tasks[p])[2] \in Locks
            /\ Queued(p, Instruction(lock_tasks[p])[2])

\* C35: with one orchestrator operation at a time, the read accessors, the
\* four background loops and the agents' monitoring loops, no interleaving
\* deadlocks on the agents, assignments, status, metrics, configuration and
\* pool locks: under fair scheduling every lock a task waits for is granted.
C35_EveryLockIsGranted ==
    \A p \in LockUsers : LockWaiting(p) ~> ~LockWaiting(p)

\* get_status holds its read guards on both maps, inside the handler's read
\* guard, while the recovery loop reads the agents map too and an operation
\* waits for the orchestrator
C35_Witness ==
    /\ lock_tasks["accessor"].prog = "get_status"
    /\ <<"accessor", "read">> \in lock_holders["agents"]
    /\ <<"accessor", "read">> \in lock_holders["assignments"]
    /\ <<"recovery", "read">> \in lock_holders["agents"]
    /\ LockWaiting("operation")

----------------------------------------------------------------------------
(* Properties of the change detection *)

\* C36: the hash of a fetched page is recorded before the page is parsed, so
\* a page whose parse failed counts as seen: a next tick that fetches the same
\* page is skipped as unchanged, returns Ok and resets consecutive_errors to 0;
\* every failed tick that counts towards the ceiling of 10 has therefore
\* fetched a page that differs from the one before it.
C36_FailedPayloadCountsAsSeen ==
    /\ [](\A html \in Payloads :
            LET first == Extracted(html)
                second == extract_and_process_messages(first.last_html_hash,
                                                       first.metrics, TRUE, html,
                                                       chat_receivers)
            IN  first.res = "ParseError" =>
                    /\ first.last_html_hash = md5_hex(html)
                    /\ second.res = "Ok"
                    /\ second.message_count = 0
                    /\ ~second.parser_called)
    /\ [][(monitoring_task = "get_chat_html" /\ monitoring_task' = "select")
            => consecutive_errors' = 0]_vars
    /\ [][(monitoring_task = "get_chat_html"
             /\ metrics'.error_count = metrics.error_count + 1)
            => /\ consecutive_errors' = consecutive_errors + 1
               /\ last_html_hash' # last_html_hash]_vars

\* a page failed to parse and the tick after it fetched the same page: the loop
\* is back at its select with the failed page's hash and a counter of 0
C36_Witness ==
    /\ monitoring_task = "select"
    /\ consecutive_errors = 0
    /\ metrics.error_count = 1
    /\ \E html \in Payloads :
         /\ ~parse_chat_html(html).ok
         /\ last_html_hash = md5_hex(html)

----------------------------------------------------------------------------
(* Properties of a failed restart *)

\* C37: when the replacement spawn inside restart_agent fails, restart_agent
\* returns the error with the old agent stopped and removed and its assignment
\* removed and not put back: the streamer is left with no agent and no
\* assignment (its retry_attempts and last_failure are gone with it).
C37_FailedRestartLosesAssignment ==
    \A agent_id \in DOMAIN agent_assignments, closeOk \in BOOLEAN,
       outcome \in StartOutcomes :
        LET old == agent_assignments[agent_id]
            unassigned == [OpState EXCEPT !.assignments = Remove(@, agent_id)]
            stopped == stop_agent(unassigned, agent_id, closeOk)
            r == restart_agent(OpState, agent_id, closeOk, outcome)
        IN  (stopped.res = "Ok" /\ r.res # "Ok") =>
              /\ r.res = spawn_agent(stopped.st, old.streamer, old.priority, outcome).res
              /\ agent_id \notin DOMAIN r.st.agents
              /\ agent_id \notin DOMAIN r.st.assignments
              /\ AssignedTo(r.st.assignments, old.streamer) = {}
              /\ \A id \in DOMAIN r.st.agents : id \in DOMAIN agents \ {agent_id}

----------------------------------------------------------------------------
(* Properties of the change detection *)

\* C38: the change detection compares a page only with the one fetched right
\* before it and remembers no message: whenever a page differs from the last
\* recorded one and parses, all its messages are published and added to
\* messages_scraped, however often they were published before; so the pages
\* A, B, A publish A's messages twice.
C38_ChangedPayloadIsPublishedAgain ==
    /\ [](\A html \in Payloads :
            (md5_hex(html) # last_html_hash /\ parse_chat_html(html).ok) =>
               /\ Extracted(html).published = parse_chat_html(html).messages
               /\ Extracted(html).metrics.messages_scraped =
                     metrics.messages_scraped + parse_chat_html(html).messages)
    /\ [][last_html_hash' # last_html_hash =>
            \E html \in Payloads :
               /\ last_html_hash' = md5_hex(html)
               /\ parse_chat_html(html).ok =>
                     metrics'.messages_scraped =
                        metrics.messages_scraped + parse_chat_html(html).messages]_vars

\* page 2, another page, page 2 again: its one message was counted twice
C38_Witness ==
    /\ last_html_hash = md5_hex(2)
    /\ metrics.messages_scraped = 2 * parse_chat_html(2).messages
    /\ monitoring_task = "select"

----------------------------------------------------------------------------
(* Properties of the error counter *)

\* a tick whose extract step returned Err
FailedTick ==
    /\ monitoring_task = "get_chat_html"
    /\ consecutive_errors' = consecutive_errors + 1

\* C39: metrics.error_count goes up by exactly one in each failed tick whose
\* error is not a BrowserError and stays as it is in a tick that fails with a
\* BrowserError or finds no browser instance, so an agent whose first failure
\* is a browser failure ends its loop with error_count 0; error_count never
\* decreases.
C39_ErrorCountCountsOtherErrors ==
    [][ /\ (FailedTick /\ status' # Status("Error", "Browser error"))
              => metrics'.error_count = metrics.error_count + 1
        /\ (FailedTick /\ status' = Status("Error", "Browser error"))
              => /\ metrics'.error_count = metrics.error_count
                 /\ monitoring_task' = "exited"
        /\ (monitoring_task = "select" /\ ~browser_instance
               /\ monitoring_task' = "exited" /\ ~ShutdownReceived)
              => metrics'.error_count = metrics.error_count
        /\ ~FailedTick => metrics'.error_count = metrics.error_count
        /\ metrics'.error_count >= metrics.error_count
      ]_vars

\* the loop ended on a browser failure that was the agent's first failure,
\* after a page was scraped
C39_Witness ==
    /\ monitoring_task = "exited"
    /\ status = Status("Error", "Browser error")
    /\ consecutive_errors = 1
    /\ metrics.messages_scraped = 1
    /\ metrics.error_count = 0

----------------------------------------------------------------------------
(* Properties of an agent dropped without stop() *)

\* the agent was dropped after its monitoring task was spawned
DroppedWithTask == agent_pc = "dropped" /\ monitoring_task # "none"

\* C40: when an agent is dropped without stop() after its monitoring loop was
\* spawned, the dropped shutdown sender makes the shutdown branch of the
\* loop's select! ready, and under fair scheduling the loop exits.
C40_DroppedAgentsLoopExits == DroppedWithTask ~> monitoring_task = "exited"

\* the loop of a dropped agent polled a page and then left through the
\* shutdown branch: no Error was written
C40_Witness ==
    /\ agent_pc = "dropped"
    /\ monitoring_task = "exited"
    /\ status = Status("Starting", "")
    /\ metrics.messages_scraped = 1

====
